---- MODULE Spec2Model ----
(***************************************************************************)
(* A model of the baseline JPEG decoder of src/src/decoder.cpp: the marker *)
(* segment parser readJPG with its segment handlers, the entropy decoder   *)
(* decodeHuffmanData with the bit reader, and the driver main.             *)
(*                                                                         *)
(* The input file is not a variable: every operation draws the bytes it    *)
(* reads from a small set of inputs (\E), and a read past the end of the   *)
(* file yields -1, as std::ifstream::get() does.  A segment handler is an  *)
(* operator from (header, the bytes that follow in the file) to the header *)
(* it leaves and the number of get() calls it made.                        *)
(*                                                                         *)
(* Integer widths: byte is 8 bits, int and uint are 32 bits.  A uint is   *)
(* written here as the int with the same 32 bits (its two's complement    *)
(* reading): uint addition and subtraction are then the integer ones, as  *)
(* long as the values stay far from 2^31 in size, which they do for the    *)
(* inputs drawn here, and only the comparisons differ (ULt, UGt).  The     *)
(* operands of (get() << 8) + get() are evaluated left to right, as the    *)
(* compilers in use do (the other order swaps the two bytes of every       *)
(* 16-bit field of the file), and -1 << 8 is -256.                         *)
(***************************************************************************)
EXTENDS Integers, Sequences, FiniteSets, TLC

\* ------------------------------------------------------------- arithmetic

Pow2(n) == 2 ^ n

\* conversion of an int to byte (unsigned char)
ToByte(x) == x % 256

\* conversion of an int to a 16-bit unsigned table entry
ToU16(x) == x % 65536

\* a < b on uint values (a negative int stands for the uint 2^32 + it)
ULt(a, b) == IF (a >= 0) = (b >= 0) THEN a < b ELSE a >= 0

\* a > b on uint values
UGt(a, b) == ULt(b, a)

\* std::ifstream::get() on the i-th byte that follows: -1 past the end
Get(in, i) == IF i <= Len(in) THEN in[i] ELSE -1

\* (inFile.get() << 8) + inFile.get(), reading at positions i and i + 1
Get16(in, i) == Get(in, i) * 256 + Get(in, i + 1)

Min(a, b) == IF a < b THEN a ELSE b

Max(a, b) == IF a > b THEN a ELSE b

\* ------------------------------------------------------------- markers

SOF0 == 192
SOF15 == 207
DHT == 196
DAC == 204
RST0 == 208
RST7 == 215
SOI == 216
EOI == 217
SOS == 218
DQT == 219
DNL == 220
DRI == 221
DHP == 222
EXP == 223
APP0 == 224
APP15 == 239
JPG0 == 240
JPG13 == 253
COM == 254
TEM == 1

\* ------------------------------------------------------------- the Header

NewColorComponent ==
    [horizontalSamplingFactor |-> 1, verticalSamplingFactor |-> 1,
     quantizationTableID |-> 0, huffmanDCTableID |-> 0, huffmanACTableID |-> 0,
     used |-> FALSE]

NewQuantizationTable == [set |-> FALSE, table |-> << >>]

NewHuffmanTable ==
    [set |-> FALSE, offsets |-> [i \in 0..16 |-> 0], symbols |-> << >>]

\* new (std::nothrow) Header.  Arrays are 1-based here: colorComponents[k + 1]
\* is the source's colorComponents[k], and likewise for the tables.
NewHeader ==
    [quantizationTables |-> [t \in 1..4 |-> NewQuantizationTable],
     huffmanDCTables |-> [t \in 1..4 |-> NewHuffmanTable],
     huffmanACTables |-> [t \in 1..4 |-> NewHuffmanTable],
     colorComponents |-> [c \in 1..3 |-> NewColorComponent],
     frameType |-> 0, height |-> 0, width |-> 0, numComponents |-> 0,
     zeroBased |-> FALSE,
     startOfSelection |-> 0, endOfSelection |-> 0,
     successiveApproximationHigh |-> 0, successiveApproximationLow |-> 0,
     restartInterval |-> 0,
     huffmanData |-> << >>,
     valid |-> TRUE]

\* header->valid = false
Invalid(h) == [h EXCEPT !.valid = FALSE]

\* what a handler leaves: the header, the number of get() calls it made, and
\* whether it indexed an array out of its bounds (undefined behaviour)
Ret(h, n) == [h |-> h, n |-> n, ub |-> FALSE]

RetUB(h, n) == [h |-> h, n |-> n, ub |-> TRUE]

\* ------------------------------------------------------------- SOF0

\* the component loop of readStartOfFrame: i is the loop counter, pos the
\* position of the next byte to read
RECURSIVE SOFComponents(_, _, _, _)
SOFComponents(h, in, pos, i) ==
    IF ~(i < h.numComponents)
    THEN Ret(h, pos - 1)
    ELSE
      LET id0 == ToByte(Get(in, pos))
          h1 == IF id0 = 0 THEN [h EXCEPT !.zeroBased = TRUE] ELSE h
          componentID == IF h1.zeroBased THEN ToByte(id0 + 1) ELSE id0
      IN  IF componentID = 4 \/ componentID = 5 THEN Ret(Invalid(h1), pos)
          ELSE IF componentID = 0 \/ componentID > 3 THEN Ret(Invalid(h1), pos)
          ELSE IF h1.colorComponents[componentID].used THEN Ret(Invalid(h1), pos)
          ELSE
            LET samplingFactor == ToByte(Get(in, pos + 1))
                qid == ToByte(Get(in, pos + 2))
                h2 == [h1 EXCEPT !.colorComponents[componentID] =
                         [@ EXCEPT !.used = TRUE,
                                   !.horizontalSamplingFactor = samplingFactor \div 16,
                                   !.verticalSamplingFactor = samplingFactor % 16,
                                   !.quantizationTableID = qid]]
            IN  IF qid > 3 THEN Ret(Invalid(h2), pos + 2)
                ELSE SOFComponents(h2, in, pos + 3, i + 1)

readStartOfFrame(h, in) ==
    IF h.numComponents # 0 THEN Ret(Invalid(h), 0)
    ELSE
      LET length == Get16(in, 1)
          precision == ToByte(Get(in, 3))
      IN  IF precision # 8 THEN Ret(Invalid(h), 3)
          ELSE
            LET h1 == [h EXCEPT !.height = Get16(in, 4), !.width = Get16(in, 6)]
            IN  IF h1.height = 0 \/ h1.width = 0 THEN Ret(Invalid(h1), 7)
                ELSE
                  LET h2 == [h1 EXCEPT !.numComponents = ToByte(Get(in, 8))]
                  IN  IF h2.numComponents = 4 THEN Ret(Invalid(h2), 8)
                      ELSE IF h2.numComponents = 0 THEN Ret(Invalid(h2), 8)
                      ELSE
                        LET r == SOFComponents(h2, in, 9, 0)
                        IN  IF ~r.h.valid THEN r
                            ELSE IF length - 8 - (3 * h2.numComponents) # 0
                                 THEN Ret(Invalid(r.h), r.n)
                                 ELSE r

\* ------------------------------------------------------------- DQT

\* the while loop of readQuantizationTable and the check that follows it
RECURSIVE DQTLoop(_, _, _, _)
DQTLoop(h, in, pos, length) ==
    IF ~(length > 0)
    THEN IF length # 0 THEN Ret(Invalid(h), pos - 1) ELSE Ret(h, pos - 1)
    ELSE
      LET tableInfo == ToByte(Get(in, pos))
          tableID == tableInfo % 16
      IN  IF tableID > 3 THEN Ret(Invalid(h), pos)
          ELSE IF tableInfo \div 16 # 0
          THEN DQTLoop([h EXCEPT !.quantizationTables[tableID + 1] =
                          [set |-> TRUE,
                           table |-> [i \in 1..64 |-> ToU16(Get16(in, pos + 2 * i - 1))]]],
                       in, pos + 129, length - 1 - 128)
          ELSE DQTLoop([h EXCEPT !.quantizationTables[tableID + 1] =
                          [set |-> TRUE,
                           table |-> [i \in 1..64 |-> ToU16(Get(in, pos + i))]]],
                       in, pos + 65, length - 1 - 64)

readQuantizationTable(h, in) == DQTLoop(h, in, 3, Get16(in, 1) - 2)

\* ------------------------------------------------------------- DHT

\* allSymbols after k of the 16 count bytes that follow position pos
RECURSIVE SumGet(_, _, _)
SumGet(in, pos, k) == IF k = 0 THEN 0 ELSE SumGet(in, pos, k - 1) + Get(in, pos + k)

\* symbols[] after the first n entries were read from the bytes after base
ReadSymbols(old, n, in, base) ==
    [i \in 1..Max(Len(old), n) |-> IF i <= n THEN ToByte(Get(in, base + i)) ELSE old[i]]

\* the check off by one: 163 symbols pass
TooManySymbolsOffByOne(allSymbols) == UGt(allSymbols, 163)

\* if (allSymbols > 162)
TooManySymbols(allSymbols) == UGt(allSymbols, 162)

\* the while loop of readHuffmanTable and the check that follows it
RECURSIVE DHTLoop(_, _, _, _)
DHTLoop(h, in, pos, length) ==
    IF ~(length > 0)
    THEN IF length # 0 THEN Ret(Invalid(h), pos - 1) ELSE Ret(h, pos - 1)
    ELSE
      LET tableInfo == ToByte(Get(in, pos))
          tableID == tableInfo % 16
          ACTable == tableInfo \div 16 # 0
      IN  IF tableID > 3 THEN Ret(Invalid(h), pos)
          ELSE
            LET old == IF ACTable THEN h.huffmanACTables[tableID + 1]
                                  ELSE h.huffmanDCTables[tableID + 1]
                offsets == [i \in 0..16 |-> SumGet(in, pos, i)]
                allSymbols == offsets[16]
                tooMany == TooManySymbols(allSymbols)
                hTable == [set |-> TRUE, offsets |-> offsets,
                           symbols |-> IF tooMany THEN old.symbols
                                       ELSE ReadSymbols(old.symbols, allSymbols, in, pos + 16)]
                h1 == IF ACTable THEN [h EXCEPT !.huffmanACTables[tableID + 1] = hTable]
                                 ELSE [h EXCEPT !.huffmanDCTables[tableID + 1] = hTable]
            IN  IF tooMany THEN Ret(Invalid(h1), pos + 16)
                ELSE DHTLoop(h1, in, pos + 17 + allSymbols, length - (17 + allSymbols))

readHuffmanTable(h, in) == DHTLoop(h, in, 3, Get16(in, 1) - 2)

\* ------------------------------------------------------------- SOS

\* the component loop of readStartOfScan
RECURSIVE SOSComponents(_, _, _, _, _)
SOSComponents(h, in, pos, i, numComponents) ==
    IF ~(i < numComponents)
    THEN Ret(h, pos - 1)
    ELSE
      LET id0 == ToByte(Get(in, pos))
          componentID == IF h.zeroBased THEN ToByte(id0 + 1) ELSE id0
      IN  IF componentID > h.numComponents THEN Ret(Invalid(h), pos)
          \* colorComponents[componentID - 1] with componentID = 0
          ELSE IF componentID = 0 THEN RetUB(h, pos)
          ELSE IF h.colorComponents[componentID].used THEN Ret(Invalid(h), pos)
          ELSE
            LET huffmanTableIDs == ToByte(Get(in, pos + 1))
                h1 == [h EXCEPT !.colorComponents[componentID] =
                         [@ EXCEPT !.used = TRUE,
                                   !.huffmanDCTableID = huffmanTableIDs \div 16,
                                   !.huffmanACTableID = huffmanTableIDs % 16]]
            IN  IF huffmanTableIDs \div 16 > 3 THEN Ret(Invalid(h1), pos + 1)
                ELSE IF huffmanTableIDs % 16 > 3 THEN Ret(Invalid(h1), pos + 1)
                ELSE SOSComponents(h1, in, pos + 2, i + 1, numComponents)

readStartOfScan(h, in) ==
    IF h.numComponents = 0 THEN Ret(Invalid(h), 0)
    \* colorComponents[i].used = false for i < numComponents, past the array
    ELSE IF h.numComponents > 3 THEN RetUB(h, 2)
    ELSE
      LET length == Get16(in, 1)
          h1 == [h EXCEPT !.colorComponents =
                   [c \in 1..3 |-> IF c <= h.numComponents
                                   THEN [@[c] EXCEPT !.used = FALSE] ELSE @[c]]]
          numComponents == ToByte(Get(in, 3))
          r == SOSComponents(h1, in, 4, 0, numComponents)
      IN  IF ~r.h.valid \/ r.ub THEN r
          ELSE
            LET successiveApproximation == ToByte(Get(in, r.n + 3))
                h2 == [r.h EXCEPT
                         !.startOfSelection = ToByte(Get(in, r.n + 1)),
                         !.endOfSelection = ToByte(Get(in, r.n + 2)),
                         !.successiveApproximationHigh = successiveApproximation \div 16,
                         !.successiveApproximationLow = successiveApproximation % 16]
            IN  IF h2.startOfSelection # 0 \/ h2.endOfSelection # 63
                THEN Ret(Invalid(h2), r.n + 3)
                ELSE IF h2.successiveApproximationHigh # 0
                        \/ h2.successiveApproximationLow # 0
                THEN Ret(Invalid(h2), r.n + 3)
                ELSE IF length - 6 - (2 * numComponents) # 0
                THEN Ret(Invalid(h2), r.n + 3)
                ELSE Ret(h2, r.n + 3)

\* ------------------------------------------------------------- DRI, APPn, COM

readRestartInterval(h, in) ==
    LET length == Get16(in, 1)
        h1 == [h EXCEPT !.restartInterval = Get16(in, 3)]
    IN  IF length - 4 # 0 THEN Ret(Invalid(h1), 4) ELSE Ret(h1, 4)

\* for (uint i = 0; i < length - 2; ++i) inFile.get(): length - 2 get() calls,
\* and when the uint length - 2 wraps around (length < 2) more calls than any
\* file has bytes, written here as one call past the end of the bytes given
readAPPN(h, in) ==
    LET length == Get16(in, 1)
    IN  IF length - 2 >= 0 THEN Ret(h, 2 + (length - 2))
                           ELSE Ret(h, Max(Len(in), 2) + 1)

readComment(h, in) ==
    LET length == Get16(in, 1)
    IN  IF length - 2 >= 0 THEN Ret(h, 2 + (length - 2))
                           ELSE Ret(h, Max(Len(in), 2) + 1)

\* ------------------------------------------------------------- Huffman codes

\* generateCodes from the j-th iteration of its outer loop: codes is the
\* array written so far (a function on the indices written), code the running
\* code.  Offsets are those of a table of a header that decodeHuffmanData is
\* given: 0..162, so that the uint loop bounds are plain integers here.
RECURSIVE GenerateFrom(_, _, _, _)
GenerateFrom(hTable, j, code, codes) ==
    IF j = 16 THEN codes
    ELSE LET lo == hTable.offsets[j]
             hi == hTable.offsets[j + 1]
             n == IF lo < hi THEN hi - lo ELSE 0
         IN  GenerateFrom(hTable, j + 1, (code + n) * 2,
                          [k \in (DOMAIN codes) \cup (lo..(hi - 1)) |->
                              IF k \in lo..(hi - 1) THEN code + (k - lo) ELSE codes[k]])

\* generateCodes that shifts the code only after a length that has codes
RECURSIVE GenerateSkippingEmpty(_, _, _, _)
GenerateSkippingEmpty(hTable, j, code, codes) ==
    IF j = 16 THEN codes
    ELSE LET lo == hTable.offsets[j]
             hi == hTable.offsets[j + 1]
             n == IF lo < hi THEN hi - lo ELSE 0
         IN  GenerateSkippingEmpty(hTable, j + 1, IF n = 0 THEN code ELSE (code + n) * 2,
                          [k \in (DOMAIN codes) \cup (lo..(hi - 1)) |->
                              IF k \in lo..(hi - 1) THEN code + (k - lo) ELSE codes[k]])

generateCodesSkippingEmpty(hTable) == GenerateSkippingEmpty(hTable, 0, 0, << >>)

generateCodes(hTable) == GenerateFrom(hTable, 0, 0, << >>)

\* ------------------------------------------------------------- BitReader

\* BitReader b(data): the position of the next bit
NewBitReader == [nextByte |-> 0, nextBit |-> 0]

\* data[nextByte] >> (7 - nextBit) & 1
BitOf(byte, nextBit) == (byte \div Pow2(7 - nextBit)) % 2

\* BitReader::readBit: the bit read (-1 when every bit was read) and the reader
readBit(b, data) ==
    IF b.nextByte >= Len(data) THEN [bit |-> -1, b |-> b]
    ELSE [bit |-> BitOf(data[b.nextByte + 1], b.nextBit),
          b |-> IF b.nextBit + 1 = 8
                THEN [nextByte |-> b.nextByte + 1, nextBit |-> 0]
                ELSE [b EXCEPT !.nextBit = b.nextBit + 1]]

\* the loop of BitReader::readBits from its i-th iteration, bits read so far;
\* ReadBitsNext is the body of the loop, where r is what readBit returned
RECURSIVE ReadBitsFrom(_, _, _, _, _)
RECURSIVE ReadBitsNext(_, _, _, _, _)
ReadBitsFrom(b, data, length, i, bits) ==
    IF ~(i < length) THEN [bits |-> bits, b |-> b]
    ELSE ReadBitsNext(readBit(b, data), data, length, i, bits)

ReadBitsNext(r, data, length, i, bits) ==
    IF r.bit = -1 THEN [bits |-> -1, b |-> r.b]
    ELSE ReadBitsFrom(r.b, data, length, i + 1, bits * 2 + r.bit)

readBits(b, data, length) == ReadBitsFrom(b, data, length, 0, 0)

\* BitReader::align
align(b, data) ==
    IF b.nextByte >= Len(data) THEN b
    ELSE IF b.nextBit # 0 THEN [nextByte |-> b.nextByte + 1, nextBit |-> 0]
    ELSE b

\* (currentCode << 1) | bit, where bit is 0, 1 or -1
ShiftOr(currentCode, bit) == IF bit = -1 THEN -1 ELSE currentCode * 2 + bit

\* the indices k of the inner loop of getNextSymbol, at length j + 1, whose
\* code is currentCode
Hits(codes, hTable, j, currentCode) ==
    {k \in hTable.offsets[j]..(hTable.offsets[j + 1] - 1) : currentCode = codes[k]}

\* a lookup that matched no code returning the symbol 0
NotFoundAsZero(b) == [symbol |-> 0, b |-> b, found |-> FALSE]

\* return -1; as a byte: no code matched through length 16
NotFound(b) == [symbol |-> ToByte(-1), b |-> b, found |-> FALSE]

\* the outer loop of getNextSymbol from its j-th iteration: the byte returned
\* ((byte)-1 = 255 when no code matched), the reader, and whether the return
\* was that of a matching code.  NextSymbolShift is
\* the end of an iteration, currentCode = (currentCode << 1) | b.readBit(),
\* where r is what readBit returned.
RECURSIVE NextSymbolFrom(_, _, _, _, _, _)
RECURSIVE NextSymbolShift(_, _, _, _, _, _)
NextSymbolFrom(b, data, codes, hTable, j, currentCode) ==
    IF j = 16 THEN NotFound(b)
    ELSE IF Hits(codes, hTable, j, currentCode) # {}
    THEN [symbol |-> hTable.symbols[
                        (CHOOSE k \in Hits(codes, hTable, j, currentCode) :
                            \A m \in Hits(codes, hTable, j, currentCode) : k <= m) + 1],
          b |-> b, found |-> TRUE]
    ELSE NextSymbolShift(readBit(b, data), data, codes, hTable, j, currentCode)

NextSymbolShift(r, data, codes, hTable, j, currentCode) ==
    NextSymbolFrom(r.b, data, codes, hTable, j + 1, ShiftOr(currentCode, r.bit))

\* getNextSymbol, where r is what the first readBit returned
FirstBit(r, data, codes, hTable) == NextSymbolFrom(r.b, data, codes, hTable, 0, r.bit)

getNextSymbol(b, data, codes, hTable) == FirstBit(readBit(b, data), data, codes, hTable)

\* ------------------------------------------------------------- MCU decode

zigZagMap ==
    << 0,  1,  8, 16,  9,  2,  3, 10,
      17, 24, 32, 25, 18, 11,  4,  5,
      12, 19, 26, 33, 40, 48, 41, 34,
      27, 20, 13,  6,  7, 14, 21, 28,
      35, 42, 49, 56, 57, 50, 43, 36,
      29, 22, 15, 23, 30, 37, 44, 51,
      58, 59, 52, 45, 38, 31, 39, 46,
      53, 60, 61, 54, 47, 55, 62, 63 >>

\* zigZagMap[i] of the source (0-based)
ZZ(i) == zigZagMap[i + 1]

\* one component array of a new MCU
NewComponent == [i \in 0..63 |-> 0]

NewMCU == [y |-> NewComponent, cb |-> NewComponent, cr |-> NewComponent]

\* the comparison taken as <=: the least positive value is extended too
ExtendDCInclusive(length, coeff) ==
    IF length # 0 /\ coeff <= Pow2(length - 1) THEN coeff - (Pow2(length) - 1) ELSE coeff

\* the DC sign extension: if (length != 0 && coeff < (1 << (length - 1)))
\*                            coeff -= (1 << length) - 1;
ExtendDC(length, coeff) ==
    IF length # 0 /\ coeff < Pow2(length - 1) THEN coeff - (Pow2(length) - 1) ELSE coeff

\* the AC sign extension, inside if (coeffLength != 0):
\*   if (coeff < (1 << (coeffLength - 1))) coeff -= (1 << coeffLength) - 1;
ExtendAC(coeffLength, coeff) ==
    IF coeff < Pow2(coeffLength - 1) THEN coeff - (Pow2(coeffLength) - 1) ELSE coeff

\* component[zigZagMap[k]] = 0 for k in from..to-1
ZeroFill(component, from, to) ==
    [p \in 0..63 |-> IF \E k \in from..(to - 1) : ZZ(k) = p THEN 0 ELSE component[p]]

\* what decodeMCUComponent leaves: its result, the reader and the component
DecRet(ok, b, component) == [ok |-> ok, b |-> b, component |-> component]

\* what one iteration of the AC loop leaves: at is "next" (the loop goes on
\* with i), "done" (return true) or "fail" (return false)
StepRet(at, b, component, i) == [at |-> at, b |-> b, component |-> component, i |-> i]

\* the AC coefficient after readBits returned the bits r
ACValue(r, component, i, coeffLength) ==
    IF r.bits = -1 THEN StepRet("fail", r.b, component, i)
    ELSE StepRet("next", r.b, [component EXCEPT ![ZZ(i)] = ExtendAC(coeffLength, r.bits)],
                 i + 1)

\* the iteration after the run of zeroes was written and moved i
ACCoefficient(b, data, component, i, coeffLength) ==
    IF coeffLength > 10 THEN StepRet("fail", b, component, i)
    ELSE IF coeffLength # 0
    THEN IF i = 64 THEN StepRet("fail", b, component, i)
         ELSE ACValue(readBits(b, data, coeffLength), component, i, coeffLength)
    ELSE StepRet("next", b, component, i + 1)

\* the body of the AC loop of decodeMCUComponent at position i, after ++i: the
\* symbol s that getNextSymbol returned, the end of block and the run of zeroes
ACSymbol(s, data, component, i) ==
    \* if (symbol == -1): a byte is never -1
    IF s.symbol = -1 THEN StepRet("fail", s.b, component, i)
    ELSE IF s.symbol = 0 THEN StepRet("done", s.b, ZeroFill(component, i, 64), 64)
    ELSE ACCoefficient(s.b, data,
                       ZeroFill(component, i, Min(i + s.symbol \div 16, 64)),
                       Min(i + s.symbol \div 16, 64), s.symbol % 16)

\* one iteration of the AC loop (for (uint i = 1; i < 64; ++i)) with its ++i
ACStep(b, data, component, i, acCodes, acTable) ==
    ACSymbol(getNextSymbol(b, data, acCodes, acTable), data, component, i)

\* the AC loop from position i, and what follows the iteration that left r
RECURSIVE ACLoop(_, _, _, _, _, _)
RECURSIVE ACNext(_, _, _, _)
ACLoop(b, data, component, i, acCodes, acTable) ==
    IF ~(i < 64) THEN DecRet(TRUE, b, component)
    ELSE ACNext(ACStep(b, data, component, i, acCodes, acTable), data, acCodes, acTable)

ACNext(r, data, acCodes, acTable) ==
    IF r.at = "fail" THEN DecRet(FALSE, r.b, r.component)
    ELSE IF r.at = "done" THEN DecRet(TRUE, r.b, r.component)
    ELSE ACLoop(r.b, data, r.component, r.i, acCodes, acTable)

\* the DC coefficient after readBits returned the bits r; the AC loop starts
\* at i = 1
DCValue(r, length, component, previousDC) ==
    IF r.bits = -1 THEN StepRet("fail", r.b, component, 0)
    ELSE StepRet("next", r.b,
                 [component EXCEPT ![0] = ExtendDC(length, r.bits) + previousDC], 1)

\* decodeMCUComponent after the DC symbol s was looked up
DCSymbol(s, data, component, previousDC) ==
    IF s.symbol = ToByte(-1) THEN StepRet("fail", s.b, component, 0)
    ELSE DCValue(readBits(s.b, data, s.symbol), s.symbol, component, previousDC)

decodeMCUComponent(b, data, component, previousDC, dcCodes, dcTable, acCodes, acTable) ==
    ACNext(DCSymbol(getNextSymbol(b, data, dcCodes, dcTable), data, component, previousDC),
           data, acCodes, acTable)

\* ------------------------------------------------------------- decodeHuffmanData

\* mcuHeight * mcuWidth
MCUCount(h) == ((h.height + 7) \div 8) * ((h.width + 7) \div 8)

\* the locals of decodeHuffmanData before its loop; result is "running" while
\* the loop runs, then "mcus" (the array is returned) or "null"
NewDecode(h) ==
    [i |-> 0, numProcessed |-> 0,
     previousYDC |-> 0, previousCbDC |-> 0, previousCrDC |-> 0,
     b |-> NewBitReader,
     mcus |-> [m \in 1..MCUCount(h) |-> NewMCU],
     result |-> "running"]

\* delete[] mcus; return nullptr;
DecodeFail(d, b) == [d EXCEPT !.b = b, !.mcus = << >>, !.result = "null"]

\* the restart interval counted on the loop index i instead of numProcessed
RestartCheckOnIndex(h, d) ==
    IF h.restartInterval # 0 /\ d.i % h.restartInterval = 0
    THEN [d EXCEPT !.numProcessed = d.numProcessed + 1, !.i = d.i + 1,
                   !.previousYDC = 0, !.previousCbDC = 0, !.previousCrDC = 0,
                   !.b = align(d.b, h.huffmanData)]
    ELSE [d EXCEPT !.numProcessed = d.numProcessed + 1, !.i = d.i + 1]

\* the end of one iteration of the loop: numProcessed and the restart interval
RestartCheck(h, d) ==
    LET n == d.numProcessed + 1
    IN  IF h.restartInterval # 0 /\ n % h.restartInterval = 0
        THEN [d EXCEPT !.numProcessed = n, !.i = d.i + 1,
                       !.previousYDC = 0, !.previousCbDC = 0, !.previousCrDC = 0,
                       !.b = align(d.b, h.huffmanData)]
        ELSE [d EXCEPT !.numProcessed = n, !.i = d.i + 1]

\* dcCodes[t] and acCodes[t]: generated for the tables that are set
DCCodes(h, t) ==
    IF h.huffmanDCTables[t + 1].set THEN generateCodes(h.huffmanDCTables[t + 1]) ELSE << >>

ACCodes(h, t) ==
    IF h.huffmanACTables[t + 1].set THEN generateCodes(h.huffmanACTables[t + 1]) ELSE << >>

\* decodeMCUComponent for component c (1 = y, 2 = cb, 3 = cr) of mcus[i]
DecodeComponent(h, d, c, component, previousDC) ==
    LET dcID == h.colorComponents[c].huffmanDCTableID
        acID == h.colorComponents[c].huffmanACTableID
    IN  decodeMCUComponent(d.b, h.huffmanData, component, previousDC,
                           DCCodes(h, dcID), h.huffmanDCTables[dcID + 1],
                           ACCodes(h, acID), h.huffmanACTables[acID + 1])

\* the loop body after decodeMCUComponent returned r for mcus[i].cr
AfterCr(h, d, r) ==
    IF ~r.ok THEN DecodeFail(d, r.b)
    ELSE RestartCheck(h, [d EXCEPT !.b = r.b, !.mcus[d.i + 1].cr = r.component,
                                   !.previousCrDC = r.component[0]])

\* the loop body with mcus[i].cb decoded: mcus[i].cr is next
DecodeCr(h, d) ==
    AfterCr(h, d, DecodeComponent(h, d, 3, d.mcus[d.i + 1].cr, d.previousCrDC))

\* the loop body after decodeMCUComponent returned r for mcus[i].cb
AfterCb(h, d, r) ==
    IF ~r.ok THEN DecodeFail(d, r.b)
    ELSE DecodeCr(h, [d EXCEPT !.b = r.b, !.mcus[d.i + 1].cb = r.component,
                               !.previousCbDC = r.component[0]])

\* the loop body with mcus[i].y decoded: if (header->numComponents == 3)
DecodeChroma(h, d) ==
    IF h.numComponents = 3
    THEN AfterCb(h, d, DecodeComponent(h, d, 2, d.mcus[d.i + 1].cb, d.previousCbDC))
    ELSE RestartCheck(h, d)

\* the loop body after decodeMCUComponent returned r for mcus[i].y
AfterY(h, d, r) ==
    IF ~r.ok THEN DecodeFail(d, r.b)
    ELSE DecodeChroma(h, [d EXCEPT !.b = r.b, !.mcus[d.i + 1].y = r.component,
                                   !.previousYDC = r.component[0]])

\* one iteration of the loop over the MCUs, or the return that follows the loop
DecodeMCU(h, d) ==
    IF ~(d.i < MCUCount(h)) THEN [d EXCEPT !.result = "mcus"]
    ELSE AfterY(h, d, DecodeComponent(h, d, 1, d.mcus[d.i + 1].y, d.previousYDC))

\* decodeHuffmanData run to its return
RECURSIVE DecodeRun(_, _)
DecodeRun(h, d) == IF d.result # "running" THEN d ELSE DecodeRun(h, DecodeMCU(h, d))

decodeHuffmanData(h) == DecodeRun(h, NewDecode(h))

\* dequantizeMCUComponent: component[zigZagMap[i]] *= qTable.table[i]
dequantizeMCUComponent(qTable, component) ==
    [p \in 0..63 |->
        LET i == CHOOSE k \in 0..63 : ZZ(k) = p IN component[p] * qTable.table[i + 1]]

\* dequantize
dequantize(h, mcus) ==
    [m \in 1..Len(mcus) |->
        LET q(c) == h.quantizationTables[h.colorComponents[c].quantizationTableID + 1]
        IN  IF h.numComponents = 3
            THEN [y |-> dequantizeMCUComponent(q(1), mcus[m].y),
                  cb |-> dequantizeMCUComponent(q(2), mcus[m].cb),
                  cr |-> dequantizeMCUComponent(q(3), mcus[m].cr)]
            ELSE [mcus[m] EXCEPT !.y = dequantizeMCUComponent(q(1), mcus[m].y)]]

\* ------------------------------------------------------------- bounds

\* iterations of the marker loop of readJPG in one run
MaxSegments == 4

\* bytes of the file read after the SOS segment in one run
MaxScan == 4

\* the longest coefficient that is sign-extended
MaxCoefficientLength == 11

\* bytes of huffmanData, MCUs of the image and the restart interval of the
\* headers that decodeHuffmanData is run on alone
MaxData == 3

MaxMCUs == 3

MaxInterval == 2

\* the blocks checked step by step: bytes of entropy-coded data, and MCUs
MaxBlockData == 3

MaxBlockMCUs == 2

\* the Huffman tables whose codes are checked: codes of length 1..MaxCodeLength,
\* up to MaxPerLength of each length
MaxCodeLength == 3

MaxPerLength == 2

\* the BitReader checked alone: bytes of data, and the length given to readBits
MaxBitsData == 2

MaxReadLength == 9

\* ------------------------------------------------------------- inputs

Rep(b, n) == [i \in 1..n |-> b]

\* the two bytes of a segment length
Len16(n) == << n \div 256, n % 256 >>

\* a whole segment after its marker: the length, then the payload
Segment(payload) == Len16(Len(payload) + 2) \o payload

\* a segment whose length field is one more than its payload has
LongSegment(payload) == Len16(Len(payload) + 3) \o payload

\* every proper prefix of the given lengths: the file ends inside the segment
Truncated(seg, lens) == {SubSeq(seg, 1, n) : n \in lens \cap (0..(Len(seg) - 1))}

\* a marker code of every branch of the marker loop
MarkerCodes ==
    {SOF0, DQT, DHT, SOS, DRI, APP0, COM, JPG0, DNL, TEM, 255,
     SOI, EOI, DAC, 194, RST0, 2}

\* last = inFile.get(); current = inFile.get(): the bytes the file still has
MarkerPairs == {<<255, m>> : m \in MarkerCodes} \cup {<<0, 0>>, <<255>>, << >>}

\* the third and fourth bytes of the file: the marker loop meets every marker
\* code there, but for the codes that readAPPN and readComment skip as they
\* skip APP0, JPG0 and DNL
SkippedAlike == ((APP0 + 1)..APP15) \cup ((JPG0 + 1)..JPG13) \cup {DHP, EXP}

FirstMarkerPairs == MarkerPairs \cup {<<255, m>> : m \in (0..255) \ SkippedAlike}

\* the first two bytes of the file
FirstPairs == {<<255, SOI>>, <<255, SOF0>>, <<0, SOI>>, <<255>>, << >>}

SOFPayload(precision, height, width, numComponents, components) ==
    <<precision>> \o Len16(height) \o Len16(width) \o <<numComponents>> \o components

Gray == SOFPayload(8, 8, 8, 1, <<1, 17, 0>>)

SOFInputs ==
    {Segment(Gray),
     Segment(SOFPayload(8, 8, 9, 1, <<2, 34, 0>>)),
     Segment(SOFPayload(8, 8, 8, 1, <<0, 17, 0>>)),
     Segment(SOFPayload(8, 8, 8, 3, <<1, 17, 0, 2, 17, 0, 3, 17, 0>>)),
     Segment(SOFPayload(8, 8, 8, 3, <<1, 17, 0, 2, 33, 0, 3, 17, 0>>)),
     Segment(SOFPayload(8, 8, 8, 2, <<1, 17, 0, 2, 17, 0>>)),
     Segment(SOFPayload(12, 8, 8, 1, <<1, 17, 0>>)),
     Segment(SOFPayload(8, 0, 8, 1, <<1, 17, 0>>)),
     Segment(SOFPayload(8, 8, 8, 4, <<1, 17, 0>>)),
     Segment(SOFPayload(8, 8, 8, 0, << >>)),
     Segment(SOFPayload(8, 8, 8, 1, <<4, 17, 0>>)),
     Segment(SOFPayload(8, 8, 8, 1, <<6, 17, 0>>)),
     Segment(SOFPayload(8, 8, 8, 2, <<1, 17, 0, 1, 17, 0>>)),
     Segment(SOFPayload(8, 8, 8, 1, <<1, 17, 4>>)),
     Segment(SOFPayload(8, 8, 8, 5, <<1, 17, 0, 2, 17, 0, 3, 17, 0, 0, 17, 0>>)),
     LongSegment(Gray)}
    \cup Truncated(Segment(Gray), {0, 5, 9})

\* one table of a DQT segment: the info byte and 64 values of value v
QTable8(tableID, v) == <<tableID>> \o Rep(v, 64)

QTable16(tableID, v) == <<16 + tableID>> \o Rep(v, 128)

DQTInputs ==
    {Segment(QTable8(0, 1)),
     Segment(QTable8(0, 2) \o QTable16(1, 1)),
     Segment(QTable8(4, 1)),
     LongSegment(QTable8(0, 1))}
    \cup Truncated(Segment(QTable8(0, 1)), {1, 10})

\* one table of a DHT segment: the info byte, the 16 counts and the symbols
HTable(tableInfo, counts, symbols) ==
    <<tableInfo>> \o counts \o Rep(0, 16 - Len(counts)) \o symbols

\* DC: 0 -> symbol 0, 10 -> symbol 1
DCTable(tableID) == HTable(tableID, <<1, 1>>, <<0, 1>>)

\* AC: 0 -> end of block, 10 -> (run 0, size 1), 110 -> ZRL
ACTable(tableID) == HTable(16 + tableID, <<1, 1, 1>>, <<0, 1, 240>>)

\* a table of n symbols, all of value 0 and of length 16
FullTable(tableInfo, n) == HTable(tableInfo, Rep(0, 15) \o <<n>>, Rep(0, n))

DHTInputs ==
    {Segment(DCTable(0) \o ACTable(0)),
     Segment(DCTable(0)),
     Segment(DCTable(0) \o FullTable(16, 162)),
     \* 163 symbols: the length counts them, and the file has them or not
     Segment(DCTable(0) \o ACTable(0) \o FullTable(1, 163)),
     SubSeq(Segment(DCTable(0) \o ACTable(0) \o FullTable(1, 163)), 1, 58),
     Segment(HTable(4, <<1>>, <<0>>)),
     LongSegment(DCTable(0)),
     \* the file ends after the count of the codes of length 1, which is 15
     <<0, 19, 0, 15>>}
    \cup Truncated(Segment(DCTable(0)), {2, 18})

SOSPayload(components, ss, se, a) ==
    <<Len(components) \div 2>> \o components \o <<ss, se, a>>

SOSInputs ==
    {Segment(SOSPayload(<<1, 0>>, 0, 63, 0)),
     Segment(SOSPayload(<< >>, 0, 63, 0)),
     Segment(SOSPayload(<<1, 0, 2, 0, 3, 0>>, 0, 63, 0)),
     Segment(SOSPayload(<<0, 0>>, 0, 63, 0)),
     Segment(SOSPayload(<<255, 0>>, 0, 63, 0)),
     Segment(SOSPayload(<<2, 0>>, 0, 63, 0)),
     Segment(SOSPayload(<<1, 0, 1, 0>>, 0, 63, 0)),
     Segment(SOSPayload(<<1, 64>>, 0, 63, 0)),
     Segment(SOSPayload(<<1, 4>>, 0, 63, 0)),
     Segment(SOSPayload(<<1, 0>>, 1, 63, 0)),
     Segment(SOSPayload(<<1, 0>>, 0, 63, 1)),
     LongSegment(SOSPayload(<<1, 0>>, 0, 63, 0))}
    \cup Truncated(Segment(SOSPayload(<<1, 0>>, 0, 63, 0)), {0, 4})

DRIInputs == {<<0, 4, 0, 1>>, <<0, 5, 0, 1>>, <<0, 4, 0>>}

SkipInputs == {<<0, 2>>, <<0, 3, 7>>, <<0, 1>>, <<0, 0>>, <<0, 4, 7>>, <<0>>, <<0, 0, 7>>,
               <<0, 1, 7, 7>>, <<0, 4, 7, 7>>}

\* the bytes drawn for the entropy-coded data
ScanBytes == {0, RST0, EOI, 255}

\* the bytes one iteration of the extraction loop can read (one or two)
ScanReads == {<< >>} \cup {<<a>> : a \in ScanBytes}
             \cup {<<a, c>> : a \in {0, RST0}, c \in ScanBytes}

\* ------------------------------------------------------------- state

VARIABLES
    pc,        \* where main (and readJPG inside it) stands
    header,    \* the Header that readJPG fills
    ret,       \* what readJPG returned: "none" yet, "null" or "header"
    last,      \* readJPG's byte last
    current,   \* readJPG's byte current
    eof,       \* !inFile: a get() has failed
    fed,       \* the last iteration of a loop of readJPG took a byte from the file
    scanIn,    \* the bytes of the file read after the SOS segment, in order
    nSeg,      \* iterations of the marker loop so far
    ub,        \* an array was indexed out of its bounds
    mcus,      \* main's mcus: << >> while null
    stages,    \* the stages main has called, in order
    exitCode,  \* main's return value, -1 while it runs
    outFile,   \* the output file: "none", "open" (written) or "failed"
    soiIn,     \* the first two bytes that readJPG read from the file
    sofAccepted, \* SOF0 segments that readStartOfFrame read and left valid
    declared,  \* the colorComponents entries (1..3) that readStartOfFrame stored
    sosIn,     \* the bytes of the SOS segment that readStartOfScan read
    skipped,   \* the last segment that readAPPN or readComment skipped
    dec,       \* the locals of decodeHuffmanData
    blk,       \* the locals of decodeMCUComponent, decoding mcus[i].y
    sx,        \* a coefficient (L, V) and its sign extension
    cw,        \* a Huffman table, its codes and a lookup in them
    br         \* a BitReader, a read from it and what the read returned

vars == <<pc, header, ret, last, current, eof, fed, scanIn, nSeg, ub, mcus, stages,
          exitCode, outFile, soiIn, sofAccepted, declared, sosIn, skipped, dec, blk,
          sx, cw, br>>

fileVars == <<last, current, eof, fed, scanIn, nSeg>>

\* what was seen of the segments: history, read by no operation
seenVars == <<soiIn, sofAccepted, declared, sosIn, skipped>>

mainVars == <<mcus, stages, exitCode, outFile>>

\* the variables of the checks of single functions
pureVars == <<sx, cw, br>>

otherVars == <<dec, blk, pureVars>>

\* the locals of decodeHuffmanData while it is not running
NoDecode == [i |-> 0, numProcessed |-> 0,
             previousYDC |-> 0, previousCbDC |-> 0, previousCrDC |-> 0,
             b |-> NewBitReader, mcus |-> << >>, result |-> "none"]

NoCoefficient == [L |-> 0, V |-> 0, dc |-> 0, ac |-> 0]

\* the locals of decodeMCUComponent while it is not running: at is "idle",
\* then "next" (in the AC loop at i), "done" or "fail"; symbol and found are
\* what the last getNextSymbol returned, from the position it was called at
\* (0 for the DC symbol), looked the reader it left, written the zigzag
\* positions the last iteration assigned, and ok the last return
NoBlock == [at |-> "idle", b |-> NewBitReader, component |-> NewComponent, i |-> 0,
            symbol |-> 0, found |-> TRUE, from |-> 0, looked |-> NewBitReader,
            written |-> {}, ok |-> TRUE]

\* no table yet; then a table, what generateCodes made of it, and what
\* getNextSymbol returned for the reader from on the data
NoCodes == [table |-> NewHuffmanTable, codes |-> << >>, data |-> << >>,
            from |-> NewBitReader, symbol |-> 0, found |-> FALSE, b |-> NewBitReader]

\* no call yet; then the data of a BitReader, the reader b before the call op
\* ("readBit", "readBits" of length bits, or "align"), what the call returned
\* (0 for align, which returns nothing) and the reader after it
NoBits == [data |-> << >>, b |-> NewBitReader, op |-> "none", length |-> 0,
           result |-> 0, after |-> NewBitReader]

Init ==
    /\ pc = "main"
    /\ header = NewHeader
    /\ ret = "none"
    /\ last = 0
    /\ current = 0
    /\ eof = FALSE
    /\ scanIn = << >>
    /\ nSeg = 0
    /\ ub = FALSE
    /\ mcus = << >>
    /\ stages = << >>
    /\ exitCode = -1
    /\ outFile = "none"
    /\ soiIn = << >>
    /\ sofAccepted = 0
    /\ declared = {}
    /\ sosIn = << >>
    /\ dec = NoDecode
    /\ blk = NoBlock
    /\ sx = NoCoefficient
    /\ cw = NoCodes
    /\ br = NoBits
    /\ fed = FALSE
    /\ skipped = << >>

\* ------------------------------------------------------------- readJPG

\* the two get() on a stream that does not keep the failure of a read
ReadPairUnchecked(p) ==
    /\ last' = ToByte(Get(p, 1))
    /\ current' = ToByte(Get(p, 2))
    /\ eof' = eof

\* last = inFile.get(); current = inFile.get(); with the bytes p left in the file
ReadPair(p) ==
    /\ last' = ToByte(Get(p, 1))
    /\ current' = ToByte(Get(p, 2))
    /\ eof' = (eof \/ Len(p) < 2)

\* return header;
ReturnHeader(h) ==
    /\ header' = h
    /\ ret' = "header"
    /\ pc' = "returned"

\* the dispatch with RSTn taken as a marker without a size, like TEM
MarkerKindRestartSkipped(c) ==
    IF c = SOF0 THEN "SOF0"
    ELSE IF c = DQT THEN "DQT"
    ELSE IF c = DHT THEN "DHT"
    ELSE IF c = SOS THEN "SOS"
    ELSE IF c = DRI THEN "DRI"
    ELSE IF c >= APP0 /\ c <= APP15 THEN "APPN"
    ELSE IF c = COM THEN "COM"
    ELSE IF (c >= JPG0 /\ c <= JPG13) \/ c = DNL \/ c = DHP \/ c = EXP THEN "unused"
    ELSE IF c = TEM \/ (c >= RST0 /\ c <= RST7) THEN "TEM"
    ELSE IF c = 255 THEN "fill"
    ELSE IF c = SOI THEN "SOI"
    ELSE IF c = EOI THEN "EOI"
    ELSE IF c = DAC THEN "DAC"
    ELSE IF c >= SOF0 /\ c <= SOF15 THEN "SOFn"
    ELSE "unknown"

\* the branch of the marker loop that the marker code takes
MarkerKind(c) ==
    IF c = SOF0 THEN "SOF0"
    ELSE IF c = DQT THEN "DQT"
    ELSE IF c = DHT THEN "DHT"
    ELSE IF c = SOS THEN "SOS"
    ELSE IF c = DRI THEN "DRI"
    ELSE IF c >= APP0 /\ c <= APP15 THEN "APPN"
    ELSE IF c = COM THEN "COM"
    ELSE IF (c >= JPG0 /\ c <= JPG13) \/ c = DNL \/ c = DHP \/ c = EXP THEN "unused"
    ELSE IF c = TEM THEN "TEM"
    ELSE IF c = 255 THEN "fill"
    ELSE IF c = SOI THEN "SOI"
    ELSE IF c = EOI THEN "EOI"
    ELSE IF c = DAC THEN "DAC"
    ELSE IF c >= SOF0 /\ c <= SOF15 THEN "SOFn"
    ELSE IF c >= RST0 /\ c <= RST7 THEN "RSTn"
    ELSE "unknown"

\* the branches that set valid = false and return
FatalKinds == {"SOI", "EOI", "DAC", "SOFn", "RSTn", "unknown"}

\* the marker loop as while (true): the valid flag is not looked at
AtMarkerIgnoringValid(kinds) ==
    /\ pc = "markers"
    /\ ~eof
    /\ last = 255
    /\ MarkerKind(current) \in kinds
    /\ nSeg < MaxSegments

\* a handler other than readAPPN and readComment has run
NothingSkipped ==
    /\ skipped' = << >>
    /\ UNCHANGED <<soiIn, sofAccepted, declared, sosIn>>

\* what readAPPN or readComment, which left r, did with the bytes in that were
\* left in the file: the length it read, the bytes it took after the two of
\* the length, and whether a get() of it failed
Skipped(r, in) ==
    [length |-> Get16(in, 1), taken |-> Min(r.n, Len(in)) - Min(2, Len(in)),
     ended |-> r.n > Len(in)]

\* the marker loop is at a marker of one of the given kinds
AtMarker(kinds) ==
    /\ pc = "markers"
    /\ header.valid
    /\ ~eof
    /\ last = 255
    /\ MarkerKind(current) \in kinds
    /\ nSeg < MaxSegments

\* the bytes in are those of a file on which the handler that left r read all
\* of them, or returned early: with valid = false or out of the bounds of an
\* array, so that what follows the bytes it read is at most read as one pair
Consumed(r, in) == (r.h.valid /\ ~r.ub) => r.n >= Len(in)

\* the bytes of in that follow those the handler read: the next pair
Leftover(r, in) == SubSeq(in, r.n + 1, Min(r.n + 2, Len(in)))

\* a segment handler has run on the bytes in and left r; the loop then reads
\* the next two bytes
AfterHandler(r, in) ==
    /\ Consumed(r, in)
    /\ header' = r.h
    /\ ub' = (ub \/ r.ub)
    /\ nSeg' = nSeg + 1
    /\ IF r.ub
       THEN /\ pc' = "undefined"
            /\ fed' = (Min(r.n, Len(in)) > 0)
            /\ UNCHANGED <<last, current, eof>>
       ELSE /\ pc' = "markers"
            /\ \E p \in MarkerPairs \cup {Leftover(r, in)} :
                  /\ r.n > Len(in) => p = << >>
                  /\ r.n < Len(in) => p = Leftover(r, in)
                  /\ ReadPair(p)
                  /\ fed' = (Min(r.n, Len(in)) + Len(p) > 0)
    /\ UNCHANGED <<ret, scanIn, mainVars, otherVars>>

\* readJPG up to the marker loop: the file is opened, the Header allocated,
\* the first two bytes checked and the next two read
ReadJPGOpen ==
    /\ pc = "readJPG"
    /\ \/ /\ \E failure \in {"open", "memory"} : ret' = "null"
          /\ pc' = "returned"
          /\ UNCHANGED <<header, last, current, eof, soiIn>>
       \/ \E first \in FirstPairs :
             /\ soiIn' = first
             /\ IF ToByte(Get(first, 1)) # 255 \/ ToByte(Get(first, 2)) # SOI
                THEN /\ ReadPair(first)
                     /\ ReturnHeader(Invalid(header))
                ELSE /\ \E p \in FirstMarkerPairs : ReadPair(p)
                     /\ pc' = "markers"
                     /\ UNCHANGED <<header, ret>>
    /\ UNCHANGED <<fed, scanIn, nSeg, ub, mainVars, sofAccepted, declared, sosIn, skipped,
                   otherVars>>

\* while (header->valid) is false: the loop is left
MarkerLoopExit ==
    /\ pc = "markers"
    /\ ~header.valid
    /\ pc' = "afterLoop"
    /\ UNCHANGED <<header, ret, fileVars, ub, mainVars, seenVars, otherVars>>

\* if (!inFile): the file ended prematurely
MarkerFileEnded ==
    /\ pc = "markers"
    /\ header.valid
    /\ eof
    /\ ReturnHeader(Invalid(header))
    /\ UNCHANGED <<fileVars, ub, mainVars, seenVars, otherVars>>

\* if (last != 0xFF): a marker was expected
MarkerExpected ==
    /\ pc = "markers"
    /\ header.valid
    /\ ~eof
    /\ last # 255
    /\ ReturnHeader(Invalid(header))
    /\ UNCHANGED <<fileVars, ub, mainVars, seenVars, otherVars>>

MarkerSOF0 ==
    /\ AtMarker({"SOF0"})
    /\ \E in \in SOFInputs :
          LET r == readStartOfFrame([header EXCEPT !.frameType = SOF0], in)
          IN  /\ AfterHandler(r, in)
              /\ sofAccepted' = IF r.h.valid THEN sofAccepted + 1 ELSE sofAccepted
              /\ declared' = declared \cup
                    {c \in 1..3 : r.h.colorComponents[c].used
                                  /\ ~header.colorComponents[c].used}
    /\ skipped' = << >>
    /\ UNCHANGED <<soiIn, sosIn>>

MarkerDQT ==
    /\ AtMarker({"DQT"})
    /\ \E in \in DQTInputs : AfterHandler(readQuantizationTable(header, in), in)
    /\ NothingSkipped

MarkerDHT ==
    /\ AtMarker({"DHT"})
    /\ \E in \in DHTInputs : AfterHandler(readHuffmanTable(header, in), in)
    /\ NothingSkipped

MarkerDRI ==
    /\ AtMarker({"DRI"})
    /\ \E in \in DRIInputs : AfterHandler(readRestartInterval(header, in), in)
    /\ NothingSkipped

MarkerAPPN ==
    /\ AtMarker({"APPN"})
    /\ \E in \in SkipInputs :
          /\ AfterHandler(readAPPN(header, in), in)
          /\ skipped' = Skipped(readAPPN(header, in), in)
    /\ UNCHANGED <<soiIn, sofAccepted, declared, sosIn>>

MarkerCOM ==
    /\ AtMarker({"COM", "unused"})
    /\ \E in \in SkipInputs :
          /\ AfterHandler(readComment(header, in), in)
          /\ skipped' = Skipped(readComment(header, in), in)
    /\ UNCHANGED <<soiIn, sofAccepted, declared, sosIn>>

\* TEM has no size
MarkerTEM ==
    /\ AtMarker({"TEM"})
    /\ AfterHandler(Ret(header, 0), << >>)
    /\ NothingSkipped

\* any number of 0xFF in a row: current = inFile.get(); continue;
MarkerFill ==
    /\ AtMarker({"fill"})
    /\ \E p \in {<<m>> : m \in MarkerCodes} \cup {<< >>} :
          /\ current' = ToByte(Get(p, 1))
          /\ eof' = (Len(p) < 1)
          /\ fed' = (Len(p) > 0)
    /\ nSeg' = nSeg + 1
    /\ NothingSkipped
    /\ UNCHANGED <<pc, header, ret, last, scanIn, ub, mainVars, otherVars>>

\* SOI, EOI, DAC, SOF1..SOF15, RST0..RST7 and every unknown marker
MarkerFatal ==
    /\ AtMarker(FatalKinds)
    /\ ReturnHeader(Invalid(header))
    /\ UNCHANGED <<fileVars, ub, mainVars, seenVars, otherVars>>

\* readStartOfScan, then break
MarkerSOS ==
    /\ AtMarker({"SOS"})
    /\ \E in \in SOSInputs :
          LET r == readStartOfScan(header, in)
          IN  /\ Consumed(r, in)
              /\ header' = r.h
              /\ ub' = (ub \/ r.ub)
              /\ eof' = (r.n > Len(in))
              /\ pc' = IF r.ub THEN "undefined" ELSE "afterLoop"
              /\ sosIn' = SubSeq(in, 1, Min(r.n, Len(in)))
              /\ fed' = (Min(r.n, Len(in)) > 0)
    /\ nSeg' = nSeg + 1
    /\ skipped' = << >>
    /\ UNCHANGED <<ret, last, current, scanIn, mainVars, soiIn, sofAccepted, declared, otherVars>>

\* push_back that loses the literal 0xFF of an FF 00 pair
PushBackDroppingFF(h, b) ==
    IF b = 255 THEN h ELSE [h EXCEPT !.huffmanData = Append(@, b)]

\* header->huffmanData.push_back(last)
PushBack(h, b) == [h EXCEPT !.huffmanData = Append(@, b)]

\* current >= RST0 && current <= RST7
IsRST(c) == c >= RST0 /\ c <= RST7

\* after the marker loop: if (header->valid) current = inFile.get();
ScanStart ==
    /\ pc = "afterLoop"
    /\ IF header.valid
       THEN /\ \E p \in {<< >>} \cup {<<a>> : a \in ScanBytes} :
                  /\ eof => p = << >>
                  /\ current' = ToByte(Get(p, 1))
                  /\ eof' = (eof \/ Len(p) < 1)
                  /\ scanIn' = p
            /\ pc' = "scan"
       ELSE /\ pc' = "validate"
            /\ UNCHANGED <<current, eof, scanIn>>
    /\ UNCHANGED <<header, ret, last, fed, nSeg, ub, mainVars, seenVars, otherVars>>

\* one iteration of the loop that reads the compressed image data
ScanStep ==
    /\ pc = "scan"
    /\ IF eof
       THEN /\ ReturnHeader(Invalid(header))
            /\ UNCHANGED <<last, current, eof, fed, scanIn>>
       ELSE \E p \in ScanReads :
              LET c1 == ToByte(Get(p, 1))
                  c2 == ToByte(Get(p, 2))
                  gets == IF current = 255 /\ (c1 = 0 \/ IsRST(c1))
                          THEN 2 ELSE 1
              IN  /\ Len(p) <= gets
                  /\ Len(scanIn) + Len(p) <= MaxScan
                  /\ last' = current
                  /\ eof' = (Len(p) < gets)
                  /\ fed' = (Len(p) > 0)
                  /\ scanIn' = scanIn \o p
                  /\ IF current = 255
                     THEN IF c1 = EOI
                          THEN /\ current' = c1
                               /\ pc' = "validate"
                               /\ UNCHANGED <<header, ret>>
                          ELSE IF c1 = 0
                          THEN /\ header' = PushBack(header, current)
                               /\ current' = c2
                               /\ UNCHANGED <<pc, ret>>
                          ELSE IF IsRST(c1)
                          THEN /\ current' = c2
                               /\ UNCHANGED <<pc, header, ret>>
                          ELSE IF c1 = 255
                          THEN /\ current' = c1
                               /\ UNCHANGED <<pc, header, ret>>
                          ELSE /\ current' = c1
                               /\ ReturnHeader(Invalid(header))
                     ELSE /\ header' = PushBack(header, current)
                          /\ current' = c1
                          /\ UNCHANGED <<pc, ret>>
    /\ UNCHANGED <<nSeg, ub, mainVars, seenVars, otherVars>>

\* tables[id].set, where oob is what a read past the four tables yields
TableSet(tables, id, oob) == IF id > 3 THEN oob ELSE tables[id + 1].set

\* what the validation leaves: the header and whether a table was read out of
\* the bounds of its array
Checked(h, oobRead) == [h |-> h, ub |-> oobRead]

\* the loop over the components that ends "validate header info", from i on
RECURSIVE ValidateTables(_, _, _, _)
ValidateTables(h, i, oob, oobRead) ==
    IF ~(i < h.numComponents) THEN Checked(h, oobRead)
    ELSE LET c == h.colorComponents[i + 1]
             q == oobRead \/ c.quantizationTableID > 3
             dc == q \/ c.huffmanDCTableID > 3
             ac == dc \/ c.huffmanACTableID > 3
         IN  IF TableSet(h.quantizationTables, c.quantizationTableID, oob) = FALSE
             THEN Checked(Invalid(h), q)
             ELSE IF TableSet(h.huffmanDCTables, c.huffmanDCTableID, oob) = FALSE
             THEN Checked(Invalid(h), dc)
             ELSE IF TableSet(h.huffmanACTables, c.huffmanACTableID, oob) = FALSE
             THEN Checked(Invalid(h), ac)
             ELSE ValidateTables(h, i + 1, oob, ac)

\* a count check that lets two components through
ComponentCountUpToThree(n) == n < 1 \/ n > 3

\* header->numComponents != 1 && header->numComponents != 3
ComponentCountUnsupported(n) == n # 1 /\ n # 3

\* "validate header info": the header that readJPG returns
ValidateHeader(h, oob) ==
    IF ComponentCountUnsupported(h.numComponents) THEN Checked(Invalid(h), FALSE)
    ELSE IF h.colorComponents[1].horizontalSamplingFactor # 1
            \/ h.colorComponents[1].verticalSamplingFactor # 1
    THEN Checked(Invalid(h), FALSE)
    ELSE IF h.numComponents = 3
            /\ (h.colorComponents[2].horizontalSamplingFactor # 1
                \/ h.colorComponents[2].verticalSamplingFactor # 1)
    THEN Checked(Invalid(h), FALSE)
    ELSE IF h.numComponents = 3
            /\ (h.colorComponents[3].horizontalSamplingFactor # 1
                \/ h.colorComponents[3].verticalSamplingFactor # 1)
    THEN Checked(Invalid(h), FALSE)
    ELSE ValidateTables(h, 0, oob, FALSE)

\* the validation that ends readJPG, and its return
Validate ==
    /\ pc = "validate"
    /\ \E oob \in BOOLEAN :
          LET r == ValidateHeader(header, oob)
          IN  /\ ReturnHeader(r.h)
              /\ ub' = (ub \/ r.ub)
    /\ UNCHANGED <<fileVars, mainVars, seenVars, otherVars>>

\* ------------------------------------------------------------- main

\* main is entered: the arguments are validated and readJPG is called
Main ==
    /\ pc = "main"
    /\ \E argc \in {1, 2, 3} :
          IF argc # 2
          THEN /\ exitCode' = 1
               /\ pc' = "exit"
               /\ UNCHANGED stages
          ELSE /\ pc' = "readJPG"
               /\ stages' = Append(stages, "readJPG")
               /\ UNCHANGED exitCode
    /\ UNCHANGED <<header, ret, fileVars, ub, mcus, outFile, seenVars, otherVars>>

\* readJPG has returned: the header is validated
CheckHeader ==
    /\ pc = "returned"
    /\ IF ret = "null" \/ header.valid = FALSE
       THEN exitCode' = 1 /\ pc' = "exit"
       ELSE pc' = "decode" /\ UNCHANGED exitCode
    /\ UNCHANGED <<header, ret, fileVars, ub, mcus, stages, outFile, seenVars, otherVars>>

\* decodeHuffmanData is called: its locals before the loop
DecodeStart ==
    /\ pc = "decode"
    /\ stages' = Append(stages, "decodeHuffmanData")
    /\ dec' = NewDecode(header)
    /\ pc' = "decoding"
    /\ UNCHANGED <<header, ret, fileVars, ub, mcus, exitCode, outFile, seenVars, blk, pureVars>>

\* one iteration of the loop of decodeHuffmanData, or its return after the loop
DecodeStep ==
    /\ pc = "decoding"
    /\ dec.result = "running"
    /\ blk.at = "idle"
    /\ dec' = DecodeMCU(header, dec)
    /\ UNCHANGED <<pc, header, ret, fileVars, ub, mainVars, seenVars, blk, pureVars>>

\* main going on to dequantize without looking at what decodeHuffmanData returned
DecodeReturnIgnoringNull ==
    /\ pc = "decoding"
    /\ dec.result # "running"
    /\ mcus' = dec.mcus
    /\ pc' = "dequantize"
    /\ UNCHANGED <<header, ret, fileVars, ub, stages, exitCode, outFile, seenVars, otherVars>>

\* decodeHuffmanData has returned to main
DecodeReturn ==
    /\ pc = "decoding"
    /\ dec.result # "running"
    /\ IF dec.result = "null"
       THEN exitCode' = 1 /\ pc' = "exit" /\ UNCHANGED mcus
       ELSE mcus' = dec.mcus /\ pc' = "dequantize" /\ UNCHANGED exitCode
    /\ UNCHANGED <<header, ret, fileVars, ub, stages, outFile, seenVars, otherVars>>

Dequantize ==
    /\ pc = "dequantize"
    /\ stages' = Append(stages, "dequantize")
    /\ mcus' = dequantize(header, mcus)
    /\ pc' = "inverseDCT"
    /\ UNCHANGED <<header, ret, fileVars, ub, exitCode, outFile, seenVars, otherVars>>

\* inverseDCT and YCbCrToRGB compute in double precision: only the calls are
\* followed here, not the samples they leave in mcus
InverseDCT ==
    /\ pc = "inverseDCT"
    /\ stages' = Append(stages, "inverseDCT")
    /\ pc' = "YCbCrToRGB"
    /\ UNCHANGED <<header, ret, fileVars, ub, mcus, exitCode, outFile, seenVars, otherVars>>

YCbCrToRGB ==
    /\ pc = "YCbCrToRGB"
    /\ stages' = Append(stages, "YCbCrToRGB")
    /\ pc' = "writeBMP"
    /\ UNCHANGED <<header, ret, fileVars, ub, mcus, exitCode, outFile, seenVars, otherVars>>

\* writeBMP: the output file is opened, or not; it returns nothing
WriteBMP ==
    /\ pc = "writeBMP"
    /\ stages' = Append(stages, "writeBMP")
    /\ \E opened \in BOOLEAN : outFile' = IF opened THEN "open" ELSE "failed"
    /\ pc' = "return"
    /\ UNCHANGED <<header, ret, fileVars, ub, mcus, exitCode, seenVars, otherVars>>

\* delete[] mcus; delete header; return 0;
MainReturn ==
    /\ pc = "return"
    /\ exitCode' = 0
    /\ pc' = "exit"
    /\ UNCHANGED <<header, ret, fileVars, ub, mcus, stages, outFile, seenVars, otherVars>>

Next ==
    \/ Main
    \/ ReadJPGOpen
    \/ MarkerLoopExit
    \/ MarkerFileEnded
    \/ MarkerExpected
    \/ MarkerSOF0
    \/ MarkerDQT
    \/ MarkerDHT
    \/ MarkerSOS
    \/ MarkerDRI
    \/ MarkerAPPN
    \/ MarkerCOM
    \/ MarkerTEM
    \/ MarkerFill
    \/ MarkerFatal
    \/ ScanStart
    \/ ScanStep
    \/ Validate
    \/ CheckHeader
    \/ DecodeStart
    \/ DecodeStep
    \/ DecodeReturn
    \/ Dequantize
    \/ InverseDCT
    \/ YCbCrToRGB
    \/ WriteBMP
    \/ MainReturn

Spec == Init /\ [][Next]_vars

\* ------------------------------------------------------------- sign extension

\* the sign extension of decodeMCUComponent applied to V, the coeffLength = L
\* bits that readBits returned: dc is the DC difference, and ac the AC
\* coefficient, which is left 0 when coeffLength = 0
SignExtension ==
    /\ sx = NoCoefficient
    /\ \E L \in 0..MaxCoefficientLength : \E V \in 0..(Pow2(L) - 1) :
          sx' = [L |-> L, V |-> V, dc |-> ExtendDC(L, V),
                 ac |-> IF L # 0 THEN ExtendAC(L, V) ELSE 0]
    /\ UNCHANGED <<pc, header, ret, fileVars, ub, mainVars, seenVars, dec, blk, cw, br>>

SpecSign == Init /\ [][SignExtension]_vars

\* ------------------------------------------------------------- decoding alone

\* the bytes of huffmanData: with the tables below, 0x00 is four blocks of
\* DC difference 0, 0x80 a block of DC difference -1 and two of 0, 0xA0 a
\* block of DC difference 1 and two of 0, 0xAA two blocks of DC difference 1
DecodeBytes == {0, 128, 160, 170}

RECURSIVE DecodeData(_)
DecodeData(n) ==
    IF n = 0 THEN {<< >>}
    ELSE DecodeData(n - 1)
            \cup {Append(d, x) : d \in {e \in DecodeData(n - 1) : Len(e) = n - 1},
                                 x \in DecodeBytes}

\* the segments of a file of nc components, 8 rows and width columns
SOFOf(nc, width) ==
    Segment(SOFPayload(8, 8, width, nc, SubSeq(<<1, 17, 0, 2, 17, 0, 3, 17, 0>>, 1, 3 * nc)))

SOSOf(nc) == Segment(SOSPayload(SubSeq(<<1, 0, 2, 0, 3, 0>>, 1, 2 * nc), 0, 63, 0))

\* the header that readJPG returns for the file SOI, SOF0, DQT, DHT, DRI (when
\* ri # 0), SOS, data, EOI: the handlers in that order, then the validation
HandledWith(h, nc, width, tables) ==
    readHuffmanTable(
        readQuantizationTable(
            readStartOfFrame([h EXCEPT !.frameType = SOF0], SOFOf(nc, width)).h,
            Segment(QTable8(0, 1))).h,
        Segment(tables)).h

Handled(h, nc, width) == HandledWith(h, nc, width, DCTable(0) \o ACTable(0))

Restarted(h, ri) == IF ri = 0 THEN h ELSE readRestartInterval(h, <<0, 4, 0, ri>>).h

HeaderOf(nc, width, ri, data) ==
    ValidateHeader([readStartOfScan(Restarted(Handled(NewHeader, nc, width), ri),
                                    SOSOf(nc)).h
                       EXCEPT !.huffmanData = data], FALSE).h

\* main after readJPG returned the header of such a file
InitDecode ==
    \E nc \in {1, 3}, m \in 1..MaxMCUs, ri \in 0..MaxInterval, data \in DecodeData(MaxData) :
        /\ pc = "decode"
        /\ header = HeaderOf(nc, 8 * m, ri, data)
        /\ ret = "header"
        /\ last = 255
        /\ current = EOI
        /\ eof = FALSE
        /\ scanIn = data \o <<255, EOI>>
        /\ nSeg = IF ri = 0 THEN 4 ELSE 5
        /\ ub = FALSE
        /\ mcus = << >>
        /\ stages = <<"readJPG">>
        /\ exitCode = -1
        /\ outFile = "none"
        /\ soiIn = <<255, SOI>>
        /\ sofAccepted = 1
        /\ declared = 1..nc
        /\ sosIn = SOSOf(nc)
        /\ dec = NoDecode
        /\ blk = NoBlock
        /\ sx = NoCoefficient
        /\ cw = NoCodes
        /\ br = NoBits
        /\ fed = TRUE
        /\ skipped = << >>

NextDecode ==
    \/ DecodeStart
    \/ DecodeStep
    \/ DecodeReturn

SpecDecode == InitDecode /\ [][NextDecode]_vars

\* ------------------------------------------------------------- codes alone

\* the numbers of codes of each length: every choice for the short lengths,
\* and three tables with codes of length 16
RECURSIVE CountsUpTo(_)
CountsUpTo(n) ==
    IF n = 0 THEN {<< >>}
    ELSE {Append(c, x) : c \in CountsUpTo(n - 1), x \in 0..MaxPerLength}

CodeCounts ==
    CountsUpTo(MaxCodeLength)
        \cup {<<1>> \o Rep(0, 14) \o <<1>>, Rep(0, 15) \o <<2>>, <<1, 1>> \o Rep(0, 13) \o <<3>>}

RECURSIVE Sum(_)
Sum(counts) == IF counts = << >> THEN 0 ELSE Head(counts) + Sum(Tail(counts))

\* the table that readHuffmanTable stores for these counts; the symbol of
\* index k is k + 1
TableOf(counts) ==
    readHuffmanTable(NewHeader,
                     Segment(HTable(0, counts \o Rep(0, 16 - Len(counts)),
                                    [k \in 1..Sum(counts) |-> k]))).h.huffmanDCTables[1]

\* the data read: every choice of the first MaxCodeLength bits, bytes that
\* hold codes of length 16 from bit 0 or from bit 6, and no data
CodeData ==
    {<<k * Pow2(8 - MaxCodeLength)>> : k \in 0..(Pow2(MaxCodeLength) - 1)}
        \cup {<<128, 0, 0>>, <<192, 1, 0>>, <<3, 0, 0>>, <<255, 255, 255>>, << >>}

\* generateCodes and one getNextSymbol, for a reader that has read skip bits
CodesLookup ==
    /\ cw = NoCodes
    /\ \E counts \in CodeCounts, data \in CodeData, skip \in {0, 6} :
          LET t == TableOf(counts)
              b0 == readBits(NewBitReader, data, skip).b
              r == getNextSymbol(b0, data, generateCodes(t), t)
          IN  cw' = [table |-> t, codes |-> generateCodes(t), data |-> data, from |-> b0,
                     symbol |-> r.symbol, found |-> r.found, b |-> r.b]
    /\ UNCHANGED <<pc, header, ret, fileVars, ub, mainVars, seenVars, dec, blk, sx, br>>

SpecCodes == Init /\ [][CodesLookup]_vars

\* ------------------------------------------------------------- BitReader alone

BitsBytes == {0, 165, 255}

RECURSIVE BitsData(_)
BitsData(n) ==
    IF n = 0 THEN {<< >>}
    ELSE BitsData(n - 1)
            \cup {Append(d, x) : d \in {e \in BitsData(n - 1) : Len(e) = n - 1},
                                 x \in BitsBytes}

\* a reader that has read skip bits of the data (all of them: at the end of
\* the data), then one call of readBit, readBits or align
BitReaderCall ==
    /\ br = NoBits
    /\ \E data \in BitsData(MaxBitsData) : \E skip \in 0..(8 * Len(data)) :
          LET b0 == readBits(NewBitReader, data, skip).b
          IN  \/ br' = [data |-> data, b |-> b0, op |-> "readBit", length |-> 1,
                        result |-> readBit(b0, data).bit, after |-> readBit(b0, data).b]
              \/ \E n \in 0..MaxReadLength :
                    br' = [data |-> data, b |-> b0, op |-> "readBits", length |-> n,
                           result |-> readBits(b0, data, n).bits,
                           after |-> readBits(b0, data, n).b]
              \/ br' = [data |-> data, b |-> b0, op |-> "align", length |-> 0,
                        result |-> 0, after |-> align(b0, data)]
    /\ UNCHANGED <<pc, header, ret, fileVars, ub, mainVars, seenVars, dec, blk, sx, cw>>

SpecBits == Init /\ [][BitReaderCall]_vars

\* ------------------------------------------------------------- one block

\* an AC table with the codes 0 -> EOB, 10 -> 0/1, 110 -> ZRL, 1110 -> 14/1,
\* 11110 -> 0/11 and 111110 -> 3/0; no code begins with 111111
BlockACTable == HTable(16, <<1, 1, 1, 1, 1, 1>>, <<0, 1, 240, 225, 11, 48>>)

\* the bytes of huffmanData: with DCTable and BlockACTable, 6D B0 is a DC
\* difference 0 and four ZRL, 6D AF 00 three ZRL, a coefficient and a run of
\* 14 from position 50, 6D BA the same run from position 49, 6D AD E0 from
\* position 51, 78 a
\* coefficient of 11 bits, 7C a run of 3 without a coefficient, 7F FF FF an AC
\* lookup and FF FF a DC lookup that match no code
BlockBytes == {0, 109, 120, 124, 127, 173, 175, 176, 224, 255}

BlockStreams ==
    {<<109, 176, 0, 0>>, <<109, 175, 0, 0>>, <<109, 173, 224, 0>>, <<109, 186, 0, 0>>,
     <<127, 255, 255, 255>>, <<255, 255, 255, 255>>, <<120, 0, 0, 0>>, <<124, 0, 0, 0>>}

\* every sequence of bytes shorter than n, and the streams up to n bytes
RECURSIVE BytesUpTo(_)
BytesUpTo(n) ==
    IF n = 0 THEN {<< >>}
    ELSE BytesUpTo(n - 1)
            \cup {Append(d, x) : d \in {e \in BytesUpTo(n - 1) : Len(e) = n - 1},
                                 x \in BlockBytes}

BlockData(n) ==
    BytesUpTo(n - 1) \cup {SubSeq(t, 1, Min(n, Len(t))) : t \in BlockStreams}

\* the bytes of the file that the scan loop turns into data: FF is FF 00
RECURSIVE Stuffed(_)
Stuffed(data) ==
    IF data = << >> THEN << >>
    ELSE (IF Head(data) = 255 THEN <<255, 0>> ELSE <<Head(data)>>) \o Stuffed(Tail(data))

BlockHeaderOf(nc, width, data) ==
    ValidateHeader([readStartOfScan(HandledWith(NewHeader, nc, width,
                                                DCTable(0) \o BlockACTable),
                                    SOSOf(nc)).h
                       EXCEPT !.huffmanData = data], FALSE).h

\* main after readJPG returned the header of such a file
InitBlock ==
    \E nc \in {1, 3}, m \in 1..MaxBlockMCUs, data \in BlockData(MaxBlockData) :
        /\ pc = "decode"
        /\ header = BlockHeaderOf(nc, 8 * m, data)
        /\ ret = "header"
        /\ last = 255
        /\ current = EOI
        /\ eof = FALSE
        /\ fed = TRUE
        /\ scanIn = Stuffed(data) \o <<255, EOI>>
        /\ nSeg = 4
        /\ ub = FALSE
        /\ mcus = << >>
        /\ stages = <<"readJPG">>
        /\ exitCode = -1
        /\ outFile = "none"
        /\ soiIn = <<255, SOI>>
        /\ sofAccepted = 1
        /\ declared = 1..nc
        /\ sosIn = SOSOf(nc)
        /\ skipped = << >>
        /\ dec = NoDecode
        /\ blk = NoBlock
        /\ sx = NoCoefficient
        /\ cw = NoCodes
        /\ br = NoBits

\* the tables of component y, as decodeHuffmanData passes them
YDCTable == header.huffmanDCTables[header.colorComponents[1].huffmanDCTableID + 1]

YACTable == header.huffmanACTables[header.colorComponents[1].huffmanACTableID + 1]

YDCCodes == DCCodes(header, header.colorComponents[1].huffmanDCTableID)

YACCodes == ACCodes(header, header.colorComponents[1].huffmanACTableID)

\* a component array of values that no coefficient has: the positions that
\* an iteration assigns are those it changes in this array
Unwritten == [p \in 0..63 |-> 65536]

\* the locals of decodeMCUComponent after the symbol s was looked up at
\* position from and the rest of the iteration left r; w is what the same
\* iteration leaves of the array Unwritten
BlockAt(r, s, from, w) ==
    [at |-> r.at, b |-> r.b, component |-> r.component, i |-> r.i,
     symbol |-> s.symbol, found |-> s.found, from |-> from, looked |-> s.b,
     written |-> {p \in 0..63 : w.component[ZZ(p)] # Unwritten[ZZ(p)]}, ok |-> TRUE]

\* decodeMCUComponent is called for mcus[i].y: the DC coefficient
BlockDC ==
    /\ pc = "decoding"
    /\ dec.result = "running"
    /\ dec.i < MCUCount(header)
    /\ blk.at = "idle"
    /\ blk' = BlockAt(DCSymbol(getNextSymbol(dec.b, header.huffmanData, YDCCodes, YDCTable),
                               header.huffmanData, dec.mcus[dec.i + 1].y, dec.previousYDC),
                      getNextSymbol(dec.b, header.huffmanData, YDCCodes, YDCTable), 0,
                      DCSymbol(getNextSymbol(dec.b, header.huffmanData, YDCCodes, YDCTable),
                               header.huffmanData, Unwritten, dec.previousYDC))
    /\ UNCHANGED <<pc, header, ret, fileVars, ub, mainVars, seenVars, dec, pureVars>>

\* one iteration of the AC loop
BlockAC ==
    /\ pc = "decoding"
    /\ blk.at = "next"
    /\ blk.i < 64
    /\ blk' = BlockAt(ACStep(blk.b, header.huffmanData, blk.component, blk.i,
                             YACCodes, YACTable),
                      getNextSymbol(blk.b, header.huffmanData, YACCodes, YACTable), blk.i,
                      ACStep(blk.b, header.huffmanData, Unwritten, blk.i, YACCodes, YACTable))
    /\ UNCHANGED <<pc, header, ret, fileVars, ub, mainVars, seenVars, dec, pureVars>>

\* decodeMCUComponent returns, and the iteration of decodeHuffmanData goes on
BlockReturn ==
    /\ pc = "decoding"
    /\ blk.at \in {"next", "done", "fail"}
    /\ blk.at = "next" => ~(blk.i < 64)
    /\ blk' = [blk EXCEPT !.at = "idle", !.ok = (blk.at # "fail")]
    /\ dec' = AfterY(header, dec, DecRet(blk.at # "fail", blk.b, blk.component))
    /\ UNCHANGED <<pc, header, ret, fileVars, ub, mainVars, seenVars, pureVars>>

NextBlock ==
    \/ DecodeStart
    \/ BlockDC
    \/ BlockAC
    \/ BlockReturn
    \/ DecodeStep
    \/ DecodeReturn

SpecBlock == InitBlock /\ [][NextBlock]_vars

\* ------------------------------------------------------------- properties

\* readJPG has returned a header with valid = true
ReturnedValid == ret = "header" /\ header.valid

\* the bytes as they come out of the entropy-coded segment s from position i
\* on, and the position of the D9 of the FF D9 that ends it (0: there is none)
NoEnd == [data |-> << >>, end |-> 0]

Cons(b, r) == [data |-> <<b>> \o r.data, end |-> r.end]

RECURSIVE Unstuffed(_, _)
Unstuffed(s, i) ==
    IF i > Len(s) THEN NoEnd
    ELSE IF s[i] # 255 THEN Cons(s[i], Unstuffed(s, i + 1))
    ELSE IF i = Len(s) THEN NoEnd
    ELSE IF s[i + 1] = 0 THEN Cons(255, Unstuffed(s, i + 2))
    ELSE IF s[i + 1] \in 208..215 THEN Unstuffed(s, i + 2)
    ELSE IF s[i + 1] = 255 THEN Unstuffed(s, i + 1)
    ELSE IF s[i + 1] = 217 THEN [data |-> << >>, end |-> i + 1]
    ELSE NoEnd

\* the positions of s that hold a byte of the set B
Positions(s, B) == {i \in 1..Len(s) : s[i] \in B}

\* the positions of s that hold a byte of B right after a 0xFF
AfterFF(s, B) == {i \in 2..Len(s) : s[i] \in B /\ s[i - 1] = 255}

\* C1: when readJPG returns a valid header, the scan data start right after the
\* SOS payload and huffmanData is the input up to the terminating FF D9 with
\* FF 00 turned into FF, FF RSTn removed and filler FF removed; its 0xFF bytes
\* are as many as the FF 00 pairs of the input, and its bytes in D0..D7 are the
\* input's that do not follow a 0xFF
C1_HuffmanDataUnstuffed ==
    ReturnedValid =>
        /\ Get16(sosIn, 1) = Len(sosIn)
        /\ Unstuffed(scanIn, 1) = [data |-> header.huffmanData, end |-> Len(scanIn)]
        /\ Cardinality(Positions(header.huffmanData, {255}))
              = Cardinality(AfterFF(scanIn, {0}))
        /\ Cardinality(Positions(header.huffmanData, 208..215))
              = Cardinality(Positions(scanIn, 208..215))
                   - Cardinality(AfterFF(scanIn, 208..215))

\* a valid header whose huffmanData holds the 0xFF of an FF 00 pair
C1_Witness ==
    /\ ReturnedValid
    /\ Positions(header.huffmanData, {255}) # {}
    /\ AfterFF(scanIn, {0}) # {}

\* C2: main returns 0 only when the whole run succeeded, and 1 when the
\* arguments are wrong, readJPG fails, the decoding fails or the output file
\* cannot be opened
C2_ExitCode ==
    pc = "exit" =>
        /\ exitCode \in {0, 1}
        /\ exitCode = 0 <=> (ReturnedValid /\ dec.result = "mcus" /\ outFile = "open")

\* an exit after the output file could not be opened
C2_OutputNotOpened == pc = "exit" /\ outFile = "failed"

\* C3: once valid is false it stays false, no handler of the marker loop runs,
\* the scan data are not read and the Header is not written
C3_InvalidHalts ==
    [][~header.valid =>
          /\ header' = header
          /\ nSeg' = nSeg
          /\ scanIn' = scanIn
          /\ seenVars' = seenVars
          /\ pc' \in {"afterLoop", "validate", "returned", "exit"}]_vars

\* valid is false after a table was stored, and the marker loop was left
C3_Witness ==
    /\ pc = "afterLoop"
    /\ ~header.valid
    /\ header.quantizationTables[1].set
    /\ nSeg >= 2

StageOrder ==
    <<"readJPG", "decodeHuffmanData", "dequantize", "inverseDCT", "YCbCrToRGB",
      "writeBMP">>

\* C4: the stages that main has called are the first of the fixed order, each
\* once; a stage after readJPG is called only with a valid header, a stage
\* after decodeHuffmanData only with the MCU array it returned
C4_StageOrder ==
    /\ Len(stages) <= Len(StageOrder)
    /\ stages = SubSeq(StageOrder, 1, Len(stages))
    /\ Len(stages) >= 2 => ReturnedValid
    /\ Len(stages) >= 3 => dec.result = "mcus"
    /\ Len(stages) = 6 => pc \in {"return", "exit"}

\* writeBMP has been called
C4_Witness == Len(stages) = 6 /\ stages[6] = "writeBMP" /\ outFile = "open"

\* the entropy-coded bytes read end with FF D9
EndsWithEOI ==
    /\ Len(scanIn) >= 2
    /\ scanIn[Len(scanIn) - 1] = 255
    /\ scanIn[Len(scanIn)] = 217

\* C5: a valid header comes from exactly one accepted SOF0 segment, read before
\* the SOS segment; it has frameType SOF0, a height and a width in 1..65535,
\* one or three components, Ss = 0, Se = 63, Ah = Al = 0, and the input had an
\* EOI after the scan data
C5_ValidHeader ==
    /\ (header.valid /\ sosIn # << >>) => sofAccepted = 1
    /\ ReturnedValid =>
        /\ sofAccepted = 1
        /\ sosIn # << >>
        /\ header.frameType = 192
        /\ header.height \in 1..65535
        /\ header.width \in 1..65535
        /\ header.numComponents \in {1, 3}
        /\ header.startOfSelection = 0
        /\ header.endOfSelection = 63
        /\ header.successiveApproximationHigh = 0
        /\ header.successiveApproximationLow = 0
        /\ EndsWithEOI

\* a valid header of three components is returned
C5_Witness == ReturnedValid /\ header.numComponents = 3 /\ EndsWithEOI

\* tables[id] is one of the four tables and set
RefersToSet(tables, id) == id \in 0..3 /\ tables[id + 1].set

\* C6: in a valid header every component that the SOF0 segment declared has
\* both sampling factors 1, and the tables of every component that the later
\* stages use are set
C6_ComponentsSupported ==
    ReturnedValid =>
        /\ \A c \in declared :
              /\ header.colorComponents[c].horizontalSamplingFactor = 1
              /\ header.colorComponents[c].verticalSamplingFactor = 1
        /\ \A c \in 1..header.numComponents :
              /\ RefersToSet(header.quantizationTables,
                             header.colorComponents[c].quantizationTableID)
              /\ RefersToSet(header.huffmanDCTables,
                             header.colorComponents[c].huffmanDCTableID)
              /\ RefersToSet(header.huffmanACTables,
                             header.colorComponents[c].huffmanACTableID)

\* the Huffman tables of a header: DC and AC, ids 0..3
HuffmanTables(h) ==
    {h.huffmanDCTables[t] : t \in 1..4} \cup {h.huffmanACTables[t] : t \in 1..4}

\* C7: every Huffman table that is set in a valid header has offsets[0] = 0,
\* offsets that never decrease and offsets[16] <= 162, as unsigned numbers
C7_OffsetsMonotone ==
    ReturnedValid =>
        \A t \in HuffmanTables(header) :
            t.set =>
                /\ t.offsets[0] = 0
                /\ \A i \in 1..16 : ~ULt(t.offsets[i], t.offsets[i - 1])
                /\ ~UGt(t.offsets[16], 162)

\* a valid header with a table of 162 symbols, as many as a table may have
C7_Witness ==
    /\ ReturnedValid
    /\ \E t \in HuffmanTables(header) : t.set /\ t.offsets[16] = 162

\* the marker codes that end the parsing before SOS: EOI, SOI, DAC, SOF1..SOF15
\* but DHT, RST0..RST7 and every code that is no marker readJPG knows
EndsParsing(c) ==
    \/ c \in {217, 216, 204}
    \/ c \in (193..207) \ {196}
    \/ c \in 208..215
    \/ c \notin {192, 196, 219, 221, 218, 254, 1, 255, 220, 222, 223}
                   \cup (224..239) \cup (240..253)

\* readJPG sets valid = false and returns, and no segment is processed
Halts ==
    /\ header' = Invalid(header)
    /\ ret' = "header"
    /\ pc' = "returned"
    /\ nSeg' = nSeg
    /\ scanIn' = scanIn
    /\ sofAccepted' = sofAccepted /\ declared' = declared /\ sosIn' = sosIn

\* C8: before SOS, a fatal marker code, a byte other than 0xFF where a marker
\* is expected, and a file that does not start with FF D8 each make readJPG
\* set valid = false and return at once
C8_FatalMarkers ==
    [][/\ (pc = "markers" /\ header.valid /\ ~eof
              /\ (last # 255 \/ EndsParsing(current))) => Halts
       /\ (pc = "readJPG" /\ ret' # "null" /\ soiIn' # <<255, 216>>) => Halts
       /\ (pc = "readJPG" /\ pc' = "markers") => soiIn' = <<255, 216>>]_vars

\* RST3 met as the first marker after SOI: the header is returned invalid
C8_Witness ==
    /\ pc = "returned"
    /\ ret = "header"
    /\ ~header.valid
    /\ soiIn = <<255, 216>>
    /\ last = 255
    /\ current = 211
    /\ nSeg = 0

Abs(v) == IF v < 0 THEN 0 - v ELSE v

\* the number of bits of n: the least k with n < 2^k
BitLength(n) == CHOOSE k \in 0..(MaxCoefficientLength + 2) :
                    n < Pow2(k) /\ (k = 0 \/ n >= Pow2(k - 1))

\* the size and the bits that encode the value v
EncodeSize(v) == BitLength(Abs(v))

EncodeBits(v) == IF v > 0 THEN v ELSE v + Pow2(EncodeSize(v)) - 1

\* v is a value of size L
InRange(L, v) ==
    IF L = 0 THEN v = 0
    ELSE \/ v \in (0 - (Pow2(L) - 1))..(1 - Pow2(L - 1))
         \/ v \in Pow2(L - 1)..(Pow2(L) - 1)

\* C9: the sign extension of the L bits V gives 0 when L = 0 and else a value
\* of -(2^L - 1) .. -2^(L-1) + 1 or of 2^(L-1) .. 2^L - 1, and that value is
\* encoded back as the same L and V, for the DC difference and the AC coefficient
C9_SignExtension ==
    /\ sx.L \in 0..MaxCoefficientLength
    /\ sx.V \in 0..(Pow2(sx.L) - 1)
    /\ InRange(sx.L, sx.dc)
    /\ EncodeSize(sx.dc) = sx.L
    /\ EncodeBits(sx.dc) = sx.V
    /\ InRange(sx.L, sx.ac)
    /\ EncodeSize(sx.ac) = sx.L
    /\ EncodeBits(sx.ac) = sx.V

\* eleven bits whose value is the greatest that is taken as negative
C9_Witness == sx.L = 11 /\ sx.V = 1023 /\ sx.dc = -1024 /\ sx.ac = -1024

\* C10: after an MCU whose 1-based index is a multiple of the restart interval
\* the three DC predictors are 0 and the bit reader is at the first bit of a
\* byte; after any other MCU, and after every MCU when the interval is 0, the
\* predictors are the DC coefficients of that MCU
C10_RestartInterval ==
    (pc = "decoding" /\ dec.result # "null" /\ dec.i >= 1) =>
        /\ dec.numProcessed = dec.i
        /\ IF header.restartInterval # 0 /\ dec.i % header.restartInterval = 0
           THEN /\ dec.previousYDC = 0
                /\ dec.previousCbDC = 0
                /\ dec.previousCrDC = 0
                /\ dec.b.nextBit = 0
           ELSE /\ dec.previousYDC = dec.mcus[dec.i].y[0]
                /\ header.numComponents = 3 =>
                      /\ dec.previousCbDC = dec.mcus[dec.i].cb[0]
                      /\ dec.previousCrDC = dec.mcus[dec.i].cr[0]

\* the second MCU of an interval of 2 was decoded with a DC coefficient that
\* is not 0, the predictor is 0 again, bits were skipped and an MCU follows
C10_Witness ==
    /\ pc = "decoding"
    /\ dec.result = "running"
    /\ header.restartInterval = 2
    /\ dec.i = 2
    /\ dec.i < MCUCount(header)
    /\ dec.mcus[2].y[0] # 0
    /\ dec.previousYDC = 0
    /\ dec.b.nextBit = 0
    /\ dec.b.nextByte < Len(header.huffmanData)

\* decodeMCUComponent has returned false for mcus[i].y
ReturnedFalse == blk.at = "idle" /\ ~blk.ok

\* C11: when a lookup of getNextSymbol, for the DC symbol or for an AC symbol,
\* matches no code through length 16 or runs into the end of the data,
\* decodeMCUComponent returns false, and decodeHuffmanData then returns null
C11_LookupMiss ==
    /\ ~blk.found => (blk.at = "fail" \/ ReturnedFalse)
    /\ ReturnedFalse => (dec.result = "null" /\ dec.mcus = << >>)

\* an AC lookup read 16 bits of the data that match no code, and
\* decodeHuffmanData has returned null
C11_Witness ==
    /\ ~blk.found
    /\ blk.from >= 1
    /\ blk.looked.nextByte < Len(header.huffmanData)
    /\ ReturnedFalse
    /\ dec.result = "null"


\* the indices of the codes of a table, and the length of the code of index k
CodeIndices(t) == 0..(t.offsets[16] - 1)

CodeLength(t, k) == CHOOSE L \in 1..16 : t.offsets[L - 1] <= k /\ k < t.offsets[L]

\* the canonical assignment: the first code is 0, and each next code is the
\* code before it plus one, shifted left once per step of length
Canonical(t, codes) ==
    \A k \in CodeIndices(t) :
        IF k = 0 THEN codes[k] = 0
        ELSE codes[k] = (codes[k - 1] + 1) * Pow2(CodeLength(t, k) - CodeLength(t, k - 1))

\* the codes of length up to L, counted by the prefixes of length L they take
RECURSIVE PrefixesTaken(_, _)
PrefixesTaken(t, L) ==
    IF L = 0 THEN 0 ELSE 2 * PrefixesTaken(t, L - 1) + (t.offsets[L] - t.offsets[L - 1])

Kraft(t) == \A L \in 1..16 : PrefixesTaken(t, L) <= Pow2(L)

PrefixFree(t, codes) ==
    \A k, m \in CodeIndices(t) :
        (k # m /\ CodeLength(t, k) <= CodeLength(t, m))
            => codes[m] \div Pow2(CodeLength(t, m) - CodeLength(t, k)) # codes[k]

\* the number of bits a reader has read, and the value of the n bits of the
\* data from bit number p on, the first bit the most significant
BitsRead(b) == 8 * b.nextByte + b.nextBit

RECURSIVE Window(_, _, _)
Window(data, p, n) ==
    IF n = 0 THEN 0
    ELSE 2 * Window(data, p, n - 1)
            + ((data[(p + n - 1) \div 8 + 1] \div Pow2(7 - ((p + n - 1) % 8))) % 2)

\* the codes that the next bits of the data spell
Matching(t, codes, data, p) ==
    {k \in CodeIndices(t) :
        /\ p + CodeLength(t, k) <= 8 * Len(data)
        /\ Window(data, p, CodeLength(t, k)) = codes[k]}

\* C12: generateCodes assigns the canonical codes, and for a table whose
\* counts satisfy the Kraft inequality every code of length L is below 2^L,
\* no code is a prefix of another, and getNextSymbol returns the symbol of the
\* one code that the next bits spell and has read exactly the bits of that code
C12_CanonicalCodes ==
    cw.table.set =>
        /\ Canonical(cw.table, cw.codes)
        /\ Kraft(cw.table) =>
              /\ \A k \in CodeIndices(cw.table) : cw.codes[k] < Pow2(CodeLength(cw.table, k))
              /\ PrefixFree(cw.table, cw.codes)
              /\ \A k \in Matching(cw.table, cw.codes, cw.data, BitsRead(cw.from)) :
                    /\ cw.found
                    /\ cw.symbol = cw.table.symbols[k + 1]
                    /\ BitsRead(cw.b) = BitsRead(cw.from) + CodeLength(cw.table, k)

\* a table with codes of length 1, 2 and 16, and a lookup that began at bit 6
\* and returned the symbol of a code of length 16
C12_Witness ==
    /\ cw.table.set
    /\ Kraft(cw.table)
    /\ cw.table.offsets[1] = 1 /\ cw.table.offsets[2] = 2 /\ cw.table.offsets[16] = 5
    /\ cw.found
    /\ BitsRead(cw.from) = 6
    /\ BitsRead(cw.b) = 22
    /\ Matching(cw.table, cw.codes, cw.data, 6) # {}


\* the last step looked up an AC symbol other than the end of block
ACSymbolRead == blk.found /\ blk.from >= 1 /\ blk.symbol # 0

\* the block decode has failed
BlockFailed == blk.at = "fail" \/ ReturnedFalse

\* C13: a ZRL symbol (0xF0) read at zigzag index i with i + 15 <= 63 writes
\* zero into the 16 positions i..i+15, stores no coefficient, reads no value
\* bits and lets the next symbol be read at index i + 16
C13_ZRLSixteenZeros ==
    (ACSymbolRead /\ blk.symbol = 240 /\ blk.from + 15 <= 63) =>
        /\ ~BlockFailed
        /\ blk.written = blk.from..(blk.from + 15)
        /\ \A p \in blk.written : blk.component[ZZ(p)] = 0
        /\ blk.b = blk.looked
        /\ blk.i = blk.from + 16

\* what does hold of such a ZRL: 15 positions are assigned, position i + 15 is
\* passed over by the ++i of the loop and keeps what the array held
C13_ZRLFifteenZeros ==
    /\ ACSymbolRead /\ blk.symbol = 240 /\ blk.from + 15 <= 63
    /\ ~BlockFailed
    /\ blk.written = blk.from..(blk.from + 14)
    /\ blk.b = blk.looked
    /\ blk.i = blk.from + 16

\* the run of zeroes of the symbol read at blk.from, and for ZRL its 16th
\* zero, would go past position 63
RunOverruns ==
    \/ blk.from + blk.symbol \div 16 - 1 > 63
    \/ blk.symbol = 240 /\ blk.from + 15 > 63

\* C14: an AC symbol other than the end of block whose run of zeroes (and, for
\* ZRL, the 16th zero) would go past position 63 makes the block decode fail,
\* and so does a coefficient size above 10; the positions assigned are in 0..63
C14_RunOverrunFails ==
    ACSymbolRead =>
        /\ RunOverruns => BlockFailed
        /\ blk.symbol % 16 > 10 => BlockFailed
        /\ blk.written \subseteq 0..63

\* a ZRL read at position 49 or later, after which the decode of the block
\* went on and returned true
C14_OverrunAccepted ==
    /\ ACSymbolRead /\ blk.symbol = 240 /\ blk.from >= 49
    /\ blk.at = "idle" /\ blk.ok
    /\ dec.result # "null"


\* every bit of the data of br was read before the call
AtEndOfData == BitsRead(br.b) = 8 * Len(br.data)

\* C15: the BitReader gives the bits of each byte from the most significant
\* on, bytes in order; once the data is read to its end, readBit and
\* readBits(n), for every n including 0, return -1, and neither they nor align
\* move the reader
C15_BitReader ==
    /\ (br.op = "readBit" /\ ~AtEndOfData) =>
          /\ br.result = Window(br.data, BitsRead(br.b), 1)
          /\ BitsRead(br.after) = BitsRead(br.b) + 1
    /\ (br.op = "readBits" /\ BitsRead(br.b) + br.length <= 8 * Len(br.data)) =>
          /\ br.result = Window(br.data, BitsRead(br.b), br.length)
          /\ BitsRead(br.after) = BitsRead(br.b) + br.length
    /\ (br.op \in {"readBit", "readBits"} /\ AtEndOfData) => br.result = -1
    /\ (br.op # "none" /\ AtEndOfData) => br.after = br.b

\* readBits(0) at the end of the data has returned 0
C15_ZeroBitsAtEnd ==
    /\ br.op = "readBits"
    /\ br.length = 0
    /\ Len(br.data) = 2
    /\ AtEndOfData
    /\ br.result = 0
    /\ br.after = br.b


\* C16: a skipped segment of declared length L >= 2 consumes exactly L - 2
\* bytes after the length, so that the next two bytes read are those of the
\* next marker; with L = 0 or 1 no byte after the length is consumed
C16_SkippedExactly ==
    skipped # << >> =>
        /\ (skipped.length >= 2 /\ ~skipped.ended) => skipped.taken = skipped.length - 2
        /\ skipped.length \in {0, 1} => skipped.taken = 0

\* a segment of declared length 0 or 1 was skipped, and the bytes that follow
\* its length were consumed up to the end of the file
C16_LengthWrapped ==
    /\ skipped # << >>
    /\ skipped.length \in {0, 1}
    /\ skipped.taken > 0
    /\ skipped.ended
    /\ eof


\* C17: every index used with colorComponents by readStartOfFrame and
\* readStartOfScan, with the tables of quantization and of Huffman codes, and
\* with symbols is inside its array; a scan component whose identifier is 0,
\* as read or after the bias of a zero-based file, is rejected before any
\* entry is read or written
C17_IndicesInBounds == ub = FALSE

\* readStartOfScan has read the component identifier 0 in a file that is not
\* zero-based and has gone on to colorComponents[-1]
C17_ScanComponentZero ==
    /\ ub
    /\ pc = "undefined"
    /\ ~header.zeroBased
    /\ Len(sosIn) = 4
    /\ sosIn[4] = 0
    /\ header.valid


\* readJPG is in its marker loop or in the loop that extracts the compressed data
InLoop == pc \in {"markers", "scan"}

\* the step is the return of a Header that is not valid, or the exit of the
\* marker loop with one, which the validation then returns
EndsInvalid ==
    /\ ~header'.valid
    /\ \/ pc' = "returned" /\ ret' = "header"
       \/ pc = "markers" /\ ~header.valid /\ pc' = "afterLoop"

\* an iteration of a loop of readJPG takes a byte from the file, or leaves the
\* loop, or finds the file ended; the iteration after the file ended returns a
\* Header that is not valid
IterationAdvances ==
    InLoop =>
       /\ fed' \/ pc' # pc \/ (~eof /\ eof')
       /\ eof => EndsInvalid

\* the statement as it was made: an iteration takes a byte or returns
IterationConsumes ==
    InLoop =>
       /\ fed' \/ pc' # pc
       /\ eof => EndsInvalid

\* C18: readJPG terminates: every iteration of the marker loop and of the loop
\* that extracts the compressed data takes at least one byte from the file, or
\* leaves the loop or returns, or is the one in which a get() finds the file
\* ended; the iteration that follows the end of the file returns with
\* valid = false, and a Header is returned valid only after the marker EOI
C18_LoopsAdvance ==
    [][/\ IterationAdvances
       /\ ReturnedValid' => EndsWithEOI']_vars

\* an iteration of the marker loop took no byte and found the file ended, and
\* the next one returned the Header with valid = false
C18_EndFoundByEmptyIteration ==
    /\ pc = "returned"
    /\ ret = "header"
    /\ ~header.valid
    /\ eof
    /\ ~fed
    /\ nSeg > 0

\* C18 as stated: every iteration of the marker loop and of the loop that
\* extracts the compressed data takes at least one byte from the file or
\* returns; after the end of the file the next iteration returns with
\* valid = false, and a file without EOI is never returned as valid
C18_EveryIterationConsumes ==
    [][/\ IterationConsumes
       /\ ReturnedValid' => EndsWithEOI']_vars


==========================================================================
